---- MODULE Spec2Model ----
(***************************************************************************)
(* Model of the timage registry client: the authentication handler         *)
(* (pkg/registry/auth.go), the request layer Client.doRequest              *)
(* (pkg/registry client) and the registry operations that send requests    *)
(* (pkg/registry/blob.go, manifest part).                                   *)
(*                                                                         *)
(* Text that the code inspects character by character (the                 *)
(* Www-Authenticate header) is a sequence of one-character strings.        *)
(***************************************************************************)
EXTENDS Integers, Sequences, FiniteSets, TLC

----------------------------------------------------------------------------
(* Bounds                                                                  *)

\* number of registry operations one client session performs
MaxCalls == 3

----------------------------------------------------------------------------
(* Go's strings package, on sequences of characters                        *)

\* strings.HasPrefix
HasPrefix(s, p) ==
  /\ Len(s) >= Len(p)
  /\ SubSeq(s, 1, Len(p)) = p

\* strings.TrimPrefix
TrimPrefix(s, p) ==
  IF HasPrefix(s, p) THEN SubSeq(s, Len(p) + 1, Len(s)) ELSE s

\* index of the first occurrence of character c in s at or after i, 0 if none
RECURSIVE IndexFrom(_, _, _)
IndexFrom(s, c, i) ==
  IF i > Len(s) THEN 0
  ELSE IF s[i] = c THEN i
  ELSE IndexFrom(s, c, i + 1)

\* strings.Split(s, sep) for a one-character separator
RECURSIVE Split(_, _)
Split(s, c) ==
  LET i == IndexFrom(s, c, 1)
  IN IF i = 0 THEN <<s>>
     ELSE <<SubSeq(s, 1, i - 1)>> \o Split(SubSeq(s, i + 1, Len(s)), c)

\* strings.SplitN(s, sep, 2) for a one-character separator
SplitN2(s, c) ==
  LET i == IndexFrom(s, c, 1)
  IN IF i = 0 THEN <<s>>
     ELSE <<SubSeq(s, 1, i - 1), SubSeq(s, i + 1, Len(s))>>

\* strings.Trim(s, cutset): drops leading and trailing characters of cutset
RECURSIVE TrimLeft(_, _)
TrimLeft(s, cut) ==
  IF s # <<>> /\ s[1] \in cut THEN TrimLeft(Tail(s), cut) ELSE s

RECURSIVE TrimRight(_, _)
TrimRight(s, cut) ==
  IF s # <<>> /\ s[Len(s)] \in cut
    THEN TrimRight(SubSeq(s, 1, Len(s) - 1), cut)
    ELSE s

Trim(s, cut) == TrimRight(TrimLeft(s, cut), cut)

\* strings.TrimSpace
TrimSpace(s) == Trim(s, {" "})

----------------------------------------------------------------------------
(* Text constants                                                          *)

QUOTE == "\""

BearerWord == <<"B", "e", "a", "r", "e", "r">>
BasicWord == <<"B", "a", "s", "i", "c">>
DigestWord == <<"D", "i", "g", "e", "s", "t">>
RealmKey == <<"r", "e", "a", "l", "m">>
ServiceKey == <<"s", "e", "r", "v", "i", "c", "e">>
ScopeKey == <<"s", "c", "o", "p", "e">>

\* key="value"
Attr(k, v) == k \o <<"=", QUOTE>> \o v \o <<QUOTE>>

RealmVal == <<"h", ":", "/", "/", "a">>
ServiceVal == <<"s", "v">>
ScopeVal == <<"p", "=", "x">>

\* Www-Authenticate header values a registry may send with a 401
HdrNone == <<>>
HdrBearerFull ==
  BearerWord \o <<" ">> \o Attr(RealmKey, RealmVal) \o <<",">>
    \o Attr(ServiceKey, ServiceVal) \o <<",">> \o Attr(ScopeKey, ScopeVal)
HdrBearerRealm == BearerWord \o <<" ">> \o Attr(RealmKey, RealmVal)
HdrBearerSpaced ==
  BearerWord \o <<" ">> \o Attr(ServiceKey, ServiceVal) \o <<",", " ">>
    \o Attr(RealmKey, RealmVal) \o <<",">>
HdrBearerNoRealm == BearerWord \o <<" ">> \o Attr(ServiceKey, ServiceVal)
HdrBearerBare == BearerWord
HdrBearerEmptyRealm == BearerWord \o <<" ">> \o Attr(RealmKey, <<>>)
HdrBasic == BasicWord \o <<" ">> \o Attr(RealmKey, RealmVal)
HdrDigest == DigestWord \o <<" ">> \o Attr(RealmKey, RealmVal)
HdrLowerBearer ==
  <<"b", "e", "a", "r", "e", "r", " ">> \o Attr(RealmKey, RealmVal)

Headers ==
  { HdrNone, HdrBearerFull, HdrBearerRealm, HdrBearerSpaced, HdrBearerNoRealm,
    HdrBearerBare, HdrBearerEmptyRealm, HdrBasic, HdrDigest, HdrLowerBearer }

----------------------------------------------------------------------------
(* auth.go: parseAuthHeader                                                *)

\* the map after the loop has handled parts[1..n]; a later key overwrites
RECURSIVE ParseParts(_, _)
ParseParts(parts, n) ==
  IF n = 0 THEN <<>>
  ELSE
    LET before == ParseParts(parts, n - 1)
        part == TrimSpace(parts[n])
        kv == SplitN2(part, "=")
    IN IF part = <<>> THEN before
       ELSE IF Len(kv) = 2
         THEN LET key == TrimSpace(kv[1])
                  value == Trim(kv[2], {QUOTE})
              IN [k \in (DOMAIN before) \cup {key} |->
                    IF k = key THEN value ELSE before[k]]
         ELSE before

parseAuthHeader(header) ==
  LET h == TrimPrefix(header, BearerWord \o <<" ">>)
      parts == Split(h, ",")
  IN ParseParts(parts, Len(parts))

\* Go map read: the zero value "" for a missing key
MapGet(params, k) == IF k \in DOMAIN params THEN params[k] ELSE <<>>

----------------------------------------------------------------------------
(* Inputs: credentials, registry and token-server answers                  *)

\* AuthConfig as the commands build it: Username and Password from the
\* configuration, Token empty
AuthConfigs ==
  { [Username |-> u, Password |-> p, Token |-> ""] :
      u \in {"", "user"}, p \in {"", "pass"} }

Statuses == {200, 201, 401, 404}

\* what httpClient.Do gives for a request to the registry: a transport
\* failure, or a response with a status and a Www-Authenticate header
TransportError == [kind |-> "err", status |-> 0, header |-> HdrNone]

RegistryResponses ==
  {TransportError}
    \cup { [kind |-> "resp", status |-> st, header |-> HdrNone] :
             st \in Statuses \ {401} }
    \cup { [kind |-> "resp", status |-> 401, header |-> h] : h \in Headers }

\* what a.client.Do gives for the token request: a transport failure, or a
\* response with a status and a body (a JSON document or not) whose fields
\* token and access_token may be empty
TokenTransportError ==
  [kind |-> "err", status |-> 0, json |-> FALSE, token |-> "",
   access_token |-> ""]

TokenResponses ==
  {TokenTransportError}
    \cup { [kind |-> "resp", status |-> st, json |-> j, token |-> t,
            access_token |-> at] :
             st \in {200, 403}, j \in BOOLEAN, t \in {"", "t1"},
             at \in {"", "t2"} }

----------------------------------------------------------------------------
(* auth.go: AuthHandler                                                    *)

NoAuthorization == [scheme |-> "none", cred |-> <<>>]

\* basicAuth: the encoded pair username:password
basicAuth(username, password) == <<username, ":", password>>

\* AddAuth with the two branches swapped: Basic wins over the token
AddAuthBasicFirst(a) ==
  IF a.Username # "" /\ a.Password # ""
    THEN [scheme |-> "Basic", cred |-> basicAuth(a.Username, a.Password)]
  ELSE IF a.Token # "" THEN [scheme |-> "Bearer", cred |-> <<a.Token>>]
  ELSE NoAuthorization

\* AddAuth: the Authorization header the request gets
AddAuth(a) ==
  IF a.Token # "" THEN [scheme |-> "Bearer", cred |-> <<a.Token>>]
  ELSE IF a.Username # "" /\ a.Password # ""
    THEN [scheme |-> "Basic", cred |-> basicAuth(a.Username, a.Password)]
  ELSE NoAuthorization

\* buildTokenURL: the realm with the non-empty service and scope as query
buildTokenURL(realm, service, scope) ==
  [base |-> realm,
   query |-> (IF service # <<>> THEN {<<"service", service>>} ELSE {})
               \cup (IF scope # <<>> THEN {<<"scope", scope>>} ELSE {})]

\* fetchToken up to a.client.Do: the token request that is sent
TokenRequest(a, realm, service, scope) ==
  [url |-> buildTokenURL(realm, service, scope),
   Authorization |->
     IF a.Username # "" /\ a.Password # ""
       THEN [scheme |-> "Basic", cred |-> basicAuth(a.Username, a.Password)]
       ELSE NoAuthorization]

\* fetchToken returning the empty token of a response without error
fetchTokenResultEmpty(t) ==
  IF t.kind = "err" THEN [err |-> "token request failed", token |-> ""]
  ELSE IF t.status # 200
    THEN [err |-> "token request failed with status", token |-> ""]
  ELSE IF ~t.json
    THEN [err |-> "failed to decode token response", token |-> ""]
  ELSE IF t.token # "" THEN [err |-> "", token |-> t.token]
  ELSE [err |-> "", token |-> t.access_token]

\* fetchToken without the status check
fetchTokenResultAnyStatus(t) ==
  IF t.kind = "err" THEN [err |-> "token request failed", token |-> ""]
  ELSE IF ~t.json
    THEN [err |-> "failed to decode token response", token |-> ""]
  ELSE IF t.token # "" THEN [err |-> "", token |-> t.token]
  ELSE IF t.access_token # "" THEN [err |-> "", token |-> t.access_token]
  ELSE [err |-> "no token in response", token |-> ""]

\* fetchToken after a.client.Do: the token or the error
fetchTokenResult(t) ==
  IF t.kind = "err" THEN [err |-> "token request failed", token |-> ""]
  ELSE IF t.status # 200
    THEN [err |-> "token request failed with status", token |-> ""]
  ELSE IF ~t.json
    THEN [err |-> "failed to decode token response", token |-> ""]
  ELSE IF t.token # "" THEN [err |-> "", token |-> t.token]
  ELSE IF t.access_token # "" THEN [err |-> "", token |-> t.access_token]
  ELSE [err |-> "no token in response", token |-> ""]

\* handleBearerAuth reading params["realm"] without the ok test
handleBearerAuthNoOk(a, authHeader) ==
  LET params == parseAuthHeader(authHeader)
  IN [kind |-> "fetch", err |-> "",
      req |-> TokenRequest(a, MapGet(params, RealmKey),
                           MapGet(params, ServiceKey),
                           MapGet(params, ScopeKey))]

\* handleBearerAuth up to fetchToken: an error, or the token request to send
handleBearerAuth(a, authHeader) ==
  LET params == parseAuthHeader(authHeader)
  IN IF RealmKey \notin DOMAIN params
       THEN [kind |-> "error",
             err |-> "no realm found in Www-Authenticate header"]
       ELSE [kind |-> "fetch", err |-> "",
             req |-> TokenRequest(a, params[RealmKey],
                                  MapGet(params, ServiceKey),
                                  MapGet(params, ScopeKey))]

\* HandleAuthChallenge without the empty-header test
HandleAuthChallengeNoHeader(a, resp) ==
  LET authHeader == resp.header
  IN IF HasPrefix(authHeader, BearerWord)
       THEN handleBearerAuth(a, authHeader)
     ELSE IF HasPrefix(authHeader, BasicWord) \/ authHeader = <<>>
       THEN [kind |-> "retry", err |-> ""]
     ELSE [kind |-> "error", err |-> "unsupported authentication method"]

\* HandleAuthChallenge without the Basic branch
HandleAuthChallengeBasicError(a, resp) ==
  LET authHeader == resp.header
  IN IF authHeader = <<>>
       THEN [kind |-> "error", err |-> "no Www-Authenticate header found"]
     ELSE IF HasPrefix(authHeader, BearerWord)
       THEN handleBearerAuth(a, authHeader)
     ELSE [kind |-> "error", err |-> "unsupported authentication method"]

\* HandleAuthChallenge returning nil at the end
HandleAuthChallengeFallthrough(a, resp) ==
  LET authHeader == resp.header
  IN IF authHeader = <<>>
       THEN [kind |-> "error", err |-> "no Www-Authenticate header found"]
     ELSE IF HasPrefix(authHeader, BearerWord)
       THEN handleBearerAuth(a, authHeader)
     ELSE [kind |-> "retry", err |-> ""]

\* HandleAuthChallenge up to the token fetch: an error, "retry" (Basic, nil
\* is returned at once) or the token request of the Bearer scheme
HandleAuthChallenge(a, resp) ==
  LET authHeader == resp.header
  IN IF authHeader = <<>>
       THEN [kind |-> "error", err |-> "no Www-Authenticate header found"]
     ELSE IF HasPrefix(authHeader, BearerWord)
       THEN handleBearerAuth(a, authHeader)
     ELSE IF HasPrefix(authHeader, BasicWord)
       THEN [kind |-> "retry", err |-> ""]
     ELSE [kind |-> "error", err |-> "unsupported authentication method"]

----------------------------------------------------------------------------
(* Registry operations and the request each one sends                      *)

\* operations of blob.go that call c.doRequest
DoRequestOps ==
  { [name |-> "GetManifest", method |-> "GET", path |-> "/name/manifests/ref"],
    [name |-> "DownloadBlob", method |-> "GET", path |-> "/name/blobs/digest"],
    [name |-> "CheckBlob", method |-> "HEAD", path |-> "/name/blobs/digest"],
    [name |-> "StartBlobUpload", method |-> "POST",
     path |-> "/name/blobs/uploads/"] }

\* operations of blob.go that build their request and call c.httpClient.Do
DirectOps ==
  { [name |-> "UploadBlobMonolithic", method |-> "PUT",
     path |-> "/name/blobs/uploads/id?digest=digest"],
    [name |-> "PutManifest", method |-> "PUT", path |-> "/name/manifests/ref"] }

NoOp == [name |-> "", method |-> "", path |-> ""]

\* the request as it leaves the client
Request(o, a, by) ==
  [method |-> o.method, path |-> o.path, Authorization |-> AddAuth(a),
   by |-> by]

\* what the request step returns: an error (with its cause) or a response
NoResult == [err |-> "", cause |-> "", status |-> 0]

----------------------------------------------------------------------------
(* State                                                                   *)

VARIABLES
  auth,        \* AuthHandler.auth: Username, Password, Token
  pc,          \* position of the running operation
  op,          \* the running operation
  sent,        \* requests sent to the registry by the running operation
  got,         \* registry answers received by the running operation
  tokenReqs,   \* token requests sent by the running operation
  tokenGot,    \* token-server answers received by the running operation
  challenges,  \* HandleAuthChallenge calls of the running operation
  auth0,       \* auth when the running operation started
  result,      \* what the operation's request step returned
  calls,       \* operations finished in this session
  ret          \* what CheckBlob returned, when it is the operation

\* Client.GetManifest and Client.GetManifestRaw
VARIABLES
  mpc,         \* position of the manifest call
  mkind,       \* "GetManifest" or "GetManifestRaw"
  mref,        \* the reference of the manifest request in flight
  mreqs,       \* the references requested by the running call
  mlist,       \* the entries of the manifest list followed last
  mlast,       \* the last answer to a manifest request
  mret         \* what the call returned

\* pushCmd.Run with Client.UploadBlob
VARIABLES
  ppc,         \* position of the push
  nLayers,     \* number of layers of the stored manifest
  isList,      \* the stored manifest is a manifest list or index
  pidx,        \* the blob being uploaded: 0 the config, i the i-th layer
  plog,        \* requests sent by the push, in order
  postResp,    \* answer to the POST of the blob being uploaded
  putResp,     \* answer to the PUT of the blob being uploaded
  uerr,        \* error text UploadBlob returned, empty for nil
  skipped,     \* blobs taken as already existing
  uploaded     \* blobs uploaded with a nil error

\* Client.DownloadBlob and Client.DownloadBlobWithProgress
VARIABLES
  dpc,         \* position of the download
  dfn,         \* "DownloadBlob" or "DownloadBlobWithProgress"
  dprogress,   \* the progress argument is not nil
  danswer,     \* what doRequest returned for the blob GET
  dfile0,      \* length of the file at destPath before the call, -1 if none
  dfile,       \* length of the file at destPath, -1 if none
  dleft,       \* bytes of the body not read yet
  dwritten,    \* progressWriter.written
  dcalls,      \* the calls of progress, in order
  derr         \* error text the download returned, "" for nil

\* the directory names of Layout: GetImageDir, ListImages, the old encoding
VARIABLES
  epc,         \* "ref", "encoded" or "decoded"
  eref,        \* the parts of an image reference
  escheme,     \* the encoding applied: "current" or "old"
  edir,        \* the directory name the encoding gave
  eimage       \* the image name decoded from the directory name

\* Store and Layout on the images directory, with the tag and rm commands
VARIABLES
  fs,          \* the directories under images/, by name
  slog         \* the operations done on the store, in order

\* pullCmd.Run: the loop over the config and the layers
VARIABLES
  bpc,         \* "off", "transfer", "failed" or "fetched"
  bcount,      \* number of layers of the manifest pulled
  bidx,        \* the blob in transfer: 0 the config, i the i-th layer
  blog         \* the transfers finished, in order, each with its outcome

\* parseImageRef
VARIABLES
  ipc,         \* "ref" before the call, "parsed" after it
  iref,        \* the image reference given
  iparsed      \* name, tag and registry returned

clientVars ==
  <<auth, pc, op, sent, got, tokenReqs, tokenGot, challenges, auth0, result,
    calls, ret>>

manifestVars == <<mpc, mkind, mref, mreqs, mlist, mlast, mret>>

pushVars ==
  <<ppc, nLayers, isList, pidx, plog, postResp, putResp, uerr, skipped,
    uploaded>>

downloadVars ==
  <<dpc, dfn, dprogress, danswer, dfile0, dfile, dleft, dwritten, dcalls,
    derr>>

\* the state of the operations that work on the local side
encodingVars == <<epc, eref, escheme, edir, eimage>>

storeVars == <<fs, slog>>

pullVars == <<bpc, bcount, bidx, blog>>

parseVars == <<ipc, iref, iparsed>>

\* the loop of pull and the parsing of references
lateVars == <<pullVars, parseVars>>

localVars == <<downloadVars, encodingVars, storeVars, lateVars>>

vars == <<clientVars, manifestVars, pushVars, localVars>>

\* what the steps of doRequest leave alone
outsideDoRequest == <<ret, manifestVars, pushVars, localVars>>

\* CheckBlob's pair (exists, err); called is false before the first call
NoRet == [called |-> FALSE, exists |-> FALSE, err |-> ""]

\* a response body: a JSON document or not, its formatting, and the fields
\* of the Manifest it decodes to
NoBody == [json |-> FALSE, fmt |-> "", mediaType |-> "", manifests |-> <<>>,
           content |-> ""]

\* the Manifest struct before Decode has filled it
NoManifest == [MediaType |-> "", Manifests |-> <<>>, Content |-> ""]

\* an answer to a manifest request, before any arrived
NoManifestAnswer ==
  [kind |-> "none", status |-> 0, contentType |-> "", body |-> NoBody]

NoManifestRet ==
  [returned |-> FALSE, err |-> "", status |-> 0, manifest |-> NoManifest,
   bytes |-> NoBody, contentType |-> ""]

NoAnswer == [kind |-> "none", status |-> 0, location |-> <<>>, body |-> <<>>]

\* no manifest call is running
ManifestIdle ==
  /\ mpc = "idle"
  /\ mkind = ""
  /\ mref = ""
  /\ mreqs = {}
  /\ mlist = <<>>
  /\ mlast = NoManifestAnswer
  /\ mret = NoManifestRet

\* no push is running
PushOff ==
  /\ ppc = "off"
  /\ nLayers = 0
  /\ isList = FALSE
  /\ pidx = 0
  /\ plog = <<>>
  /\ postResp = NoAnswer
  /\ putResp = NoAnswer
  /\ uerr = <<>>
  /\ skipped = {}
  /\ uploaded = {}

\* the answer to the blob GET, before it arrived
NoBlobAnswer == [kind |-> "none", status |-> 0, len |-> 0, contentLength |-> 0]

\* no download is running
DownloadOff ==
  /\ dpc = "off"
  /\ dfn = ""
  /\ dprogress = FALSE
  /\ danswer = NoBlobAnswer
  /\ dfile0 = 0 - 1
  /\ dfile = 0 - 1
  /\ dleft = 0
  /\ dwritten = 0
  /\ dcalls = <<>>
  /\ derr = ""

\* nothing runs on the local side
NoRef == [host |-> <<>>, port |-> <<>>, path |-> <<>>, tag |-> <<>>]

\* no directory name is being worked out
EncodingOff ==
  /\ epc = "off"
  /\ eref = NoRef
  /\ escheme = ""
  /\ edir = <<>>
  /\ eimage = <<>>

\* no store is open
StoreOff ==
  /\ fs = <<>>
  /\ slog = <<>>

\* no pull is running
PullOff ==
  /\ bpc = "off"
  /\ bcount = 0
  /\ bidx = 0
  /\ blog = <<>>

NoParsed == [name |-> <<>>, tag |-> <<>>, registry |-> <<>>]

\* no reference is being parsed
ParseOff ==
  /\ ipc = "off"
  /\ iref = <<>>
  /\ iparsed = NoParsed

LateOff == PullOff /\ ParseOff

LocalOff == DownloadOff /\ EncodingOff /\ StoreOff /\ LateOff

\* a client right after NewClient, before any request
ClientIdle ==
  /\ pc = "idle"
  /\ op = NoOp
  /\ sent = <<>>
  /\ got = <<>>
  /\ tokenReqs = <<>>
  /\ tokenGot = <<>>
  /\ challenges = 0
  /\ auth0 = auth
  /\ result = NoResult
  /\ calls = 0
  /\ ret = NoRet

Init ==
  /\ auth \in AuthConfigs
  /\ pc = "idle"
  /\ op = NoOp
  /\ sent = <<>>
  /\ got = <<>>
  /\ tokenReqs = <<>>
  /\ tokenGot = <<>>
  /\ challenges = 0
  /\ auth0 = auth
  /\ result = NoResult
  /\ calls = 0
  /\ ret = NoRet
  /\ ManifestIdle
  /\ PushOff
  /\ LocalOff

----------------------------------------------------------------------------
(* Client.doRequest                                                        *)

\* doRequest, lines 60-82: build the request, AddAuth, send it
DoRequestSend(o) ==
  /\ ret' = NoRet
  /\ UNCHANGED <<manifestVars, pushVars, localVars>>
  /\ pc = "idle"
  /\ calls < MaxCalls
  /\ pc' = "first"
  /\ op' = o
  /\ sent' = <<Request(o, auth, "doRequest")>>
  /\ got' = <<>>
  /\ tokenReqs' = <<>>
  /\ tokenGot' = <<>>
  /\ challenges' = 0
  /\ auth0' = auth
  /\ result' = NoResult
  /\ UNCHANGED <<auth, calls>>

\* the retry re-sends the first request object, AddAuth is not called again
SendRetryStale(a) ==
  /\ sent' = Append(sent, sent[1])
  /\ pc' = "retry"
  /\ result' = result

\* doRequest, lines 96-108: the retry request, built as the first one
SendRetry(a) ==
  /\ sent' = Append(sent, Request(op, a, "doRequest"))
  /\ pc' = "retry"
  /\ result' = result

\* doRequest, lines 82-108: the first answer arrives
DoRequestFirstResponse(r) ==
  /\ UNCHANGED outsideDoRequest
  /\ pc = "first"
  /\ got' = Append(got, r)
  /\ UNCHANGED <<op, auth0, calls, auth, tokenGot>>
  /\ IF r.kind = "err"
       THEN /\ result' = [err |-> "request failed", cause |-> "", status |-> 0]
            /\ pc' = "done"
            /\ UNCHANGED <<sent, tokenReqs, challenges>>
     ELSE IF r.status # 401
       THEN /\ result' = [err |-> "", cause |-> "", status |-> r.status]
            /\ pc' = "done"
            /\ UNCHANGED <<sent, tokenReqs, challenges>>
     ELSE
       LET c == HandleAuthChallenge(auth, r)
       IN /\ challenges' = challenges + 1
          /\ CASE c.kind = "error" ->
                    /\ result' = [err |-> "authentication failed",
                                  cause |-> c.err, status |-> 0]
                    /\ pc' = "done"
                    /\ UNCHANGED <<sent, tokenReqs>>
               [] c.kind = "retry" ->
                    /\ SendRetry(auth)
                    /\ UNCHANGED tokenReqs
               [] c.kind = "fetch" ->
                    /\ tokenReqs' = Append(tokenReqs, c.req)
                    /\ pc' = "token"
                    /\ UNCHANGED <<sent, result>>

\* fetchToken, lines 130-155, handleBearerAuth, lines 98-106, and doRequest,
\* lines 89-108: the token server's answer arrives
FetchTokenResponse(t) ==
  /\ UNCHANGED outsideDoRequest
  /\ pc = "token"
  \* a realm without a scheme never reaches a server: Do fails
  /\ tokenReqs[Len(tokenReqs)].url.base = <<>> => t.kind = "err"
  /\ tokenGot' = Append(tokenGot, t)
  /\ UNCHANGED <<op, got, tokenReqs, challenges, auth0, calls>>
  /\ LET f == fetchTokenResult(t)
     IN IF f.err # ""
          THEN /\ result' = [err |-> "authentication failed",
                             cause |-> "failed to fetch token", status |-> 0]
               /\ pc' = "done"
               /\ UNCHANGED <<auth, sent>>
          ELSE /\ auth' = [auth EXCEPT !.Token = f.token]
               /\ SendRetry(auth')

\* doRequest looping on 401: the retry's 401 is resolved and retried again
DoRequestRetryResponseLoop(r) ==
  /\ UNCHANGED outsideDoRequest
  /\ pc = "retry"
  /\ got' = Append(got, r)
  /\ UNCHANGED <<auth, op, tokenReqs, tokenGot, auth0, calls>>
  /\ IF r.kind = "resp" /\ r.status = 401
          /\ HandleAuthChallenge(auth, r).kind # "error"
       THEN /\ challenges' = challenges + 1
            /\ sent' = Append(sent, Request(op, auth, "doRequest"))
            /\ UNCHANGED <<pc, result>>
       ELSE /\ result' = IF r.kind = "err"
                           THEN [err |-> "retry request failed", cause |-> "",
                                 status |-> 0]
                           ELSE [err |-> "", cause |-> "",
                                 status |-> r.status]
            /\ pc' = "done"
            /\ UNCHANGED <<sent, challenges>>

\* doRequest fetching a fresh token when the retry is answered 401
DoRequestRetryResponseRefetch(r) ==
  /\ UNCHANGED outsideDoRequest
  /\ pc = "retry"
  /\ got' = Append(got, r)
  /\ UNCHANGED <<auth, op, sent, tokenGot, auth0, calls>>
  /\ IF r.kind = "resp" /\ r.status = 401
          /\ HandleAuthChallenge(auth, r).kind = "fetch"
       THEN /\ challenges' = challenges + 1
            /\ tokenReqs' =
                 Append(tokenReqs, HandleAuthChallenge(auth, r).req)
            /\ pc' = "token"
            /\ UNCHANGED result
       ELSE /\ result' = IF r.kind = "err"
                           THEN [err |-> "retry request failed", cause |-> "",
                                 status |-> 0]
                           ELSE [err |-> "", cause |-> "",
                                 status |-> r.status]
            /\ pc' = "done"
            /\ UNCHANGED <<tokenReqs, challenges>>

\* doRequest sending the retry again after a transport failure
DoRequestRetryResponseResend(r) ==
  /\ UNCHANGED outsideDoRequest
  /\ pc = "retry"
  /\ got' = Append(got, r)
  /\ UNCHANGED <<auth, op, tokenReqs, tokenGot, challenges, auth0, calls>>
  /\ IF r.kind = "err"
       THEN /\ sent' = Append(sent, Request(op, auth, "doRequest"))
            /\ UNCHANGED <<pc, result>>
       ELSE /\ result' = [err |-> "", cause |-> "", status |-> r.status]
            /\ pc' = "done"
            /\ UNCHANGED sent

\* doRequest, lines 108-114: the answer to the retry arrives
DoRequestRetryResponse(r) ==
  /\ UNCHANGED outsideDoRequest
  /\ pc = "retry"
  /\ got' = Append(got, r)
  /\ result' = IF r.kind = "err"
                 THEN [err |-> "retry request failed", cause |-> "",
                       status |-> 0]
                 ELSE [err |-> "", cause |-> "", status |-> r.status]
  /\ pc' = "done"
  /\ UNCHANGED <<auth, op, sent, tokenReqs, tokenGot, challenges, auth0, calls>>

----------------------------------------------------------------------------
(* Client.UploadBlobMonolithic and Client.PutManifest                      *)

\* build the PUT request, AddAuth, c.httpClient.Do
DirectPutSend(o) ==
  /\ ret' = NoRet
  /\ UNCHANGED <<manifestVars, pushVars, localVars>>
  /\ pc = "idle"
  /\ calls < MaxCalls
  /\ pc' = "direct"
  /\ op' = o
  /\ sent' = <<Request(o, auth, "httpClient.Do")>>
  /\ got' = <<>>
  /\ tokenReqs' = <<>>
  /\ tokenGot' = <<>>
  /\ challenges' = 0
  /\ auth0' = auth
  /\ result' = NoResult
  /\ UNCHANGED <<auth, calls>>

\* the PUT handled as doRequest handles an answer: a 401 is resolved
DirectPutResponseChallenge(r) ==
  /\ UNCHANGED outsideDoRequest
  /\ pc = "direct"
  /\ got' = Append(got, r)
  /\ challenges' =
       IF r.kind = "resp" /\ r.status = 401 THEN challenges + 1
       ELSE challenges
  /\ result' = IF r.kind = "err"
                 THEN [err |-> "request failed", cause |-> "", status |-> 0]
               ELSE IF r.status = 401
                 THEN [err |-> "authentication failed",
                       cause |-> HandleAuthChallenge(auth, r).err,
                       status |-> 0]
               ELSE IF r.status # 201
                 THEN [err |-> "unexpected status code", cause |-> "",
                       status |-> r.status]
               ELSE [err |-> "", cause |-> "", status |-> r.status]
  /\ pc' = "done"
  /\ UNCHANGED <<auth, op, sent, tokenReqs, tokenGot, auth0, calls>>

\* the answer to the PUT: 201 or an error
DirectPutResponse(r) ==
  /\ UNCHANGED outsideDoRequest
  /\ pc = "direct"
  /\ got' = Append(got, r)
  /\ result' = IF r.kind = "err"
                 THEN [err |-> "request failed", cause |-> "", status |-> 0]
               ELSE IF r.status # 201
                 THEN [err |-> "unexpected status code", cause |-> "",
                       status |-> r.status]
               ELSE [err |-> "", cause |-> "", status |-> r.status]
  /\ pc' = "done"
  /\ UNCHANGED <<auth, op, sent, tokenReqs, tokenGot, challenges, auth0, calls>>

\* the operation returns to its caller
Return ==
  /\ pc = "done"
  /\ op.name # "CheckBlob"
  /\ pc' = "idle"
  /\ calls' = calls + 1
  /\ UNCHANGED <<auth, op, sent, got, tokenReqs, tokenGot, challenges, auth0,
                 result>>
  /\ UNCHANGED outsideDoRequest

\* CheckBlob taking every status but 200 as "absent"
CheckBlobLenient(res) ==
  IF res.err # ""
    THEN [called |-> TRUE, exists |-> FALSE, err |-> "failed to check blob"]
  ELSE IF res.status = 200
    THEN [called |-> TRUE, exists |-> TRUE, err |-> ""]
  ELSE [called |-> TRUE, exists |-> FALSE, err |-> ""]

\* CheckBlob, lines 112-126: the pair (exists, err) for what doRequest
\* returned
CheckBlob(res) ==
  IF res.err # ""
    THEN [called |-> TRUE, exists |-> FALSE, err |-> "failed to check blob"]
  ELSE IF res.status = 200
    THEN [called |-> TRUE, exists |-> TRUE, err |-> ""]
  ELSE IF res.status = 404
    THEN [called |-> TRUE, exists |-> FALSE, err |-> ""]
  ELSE [called |-> TRUE, exists |-> FALSE, err |-> "unexpected status code"]

\* CheckBlob returns to its caller
CheckBlobReturn ==
  /\ pc = "done"
  /\ op.name = "CheckBlob"
  /\ ret' = CheckBlob(result)
  /\ pc' = "idle"
  /\ calls' = calls + 1
  /\ UNCHANGED <<auth, op, sent, got, tokenReqs, tokenGot, challenges, auth0,
                 result>>
  /\ UNCHANGED <<manifestVars, pushVars, localVars>>

Next ==
  \/ \E o \in DoRequestOps : DoRequestSend(o)
  \/ \E r \in RegistryResponses : DoRequestFirstResponse(r)
  \/ \E t \in TokenResponses : FetchTokenResponse(t)
  \/ \E r \in RegistryResponses : DoRequestRetryResponse(r)
  \/ \E o \in DirectOps : DirectPutSend(o)
  \/ \E r \in RegistryResponses : DirectPutResponse(r)
  \/ Return
  \/ CheckBlobReturn

Spec == Init /\ [][Next]_vars

TypeOK ==
  /\ auth.Token \in {"", "t1", "t2"}
  /\ pc \in {"idle", "first", "token", "retry", "direct", "done"}
  /\ Len(sent) <= 2
  /\ calls \in 0..MaxCalls

----------------------------------------------------------------------------
(* Client.GetManifest and Client.GetManifestRaw                            *)

\* entries of one manifest list
MaxEntries == 2

MTManifestV2 == "application/vnd.docker.distribution.manifest.v2+json"
MTManifestList == "application/vnd.docker.distribution.manifest.list.v2+json"
MTOCIIndex == "application/vnd.oci.image.index.v1+json"

Digests == {"sha256:a", "sha256:b"}

Platforms ==
  { [architecture |-> "amd64", os |-> "linux"],
    [architecture |-> "arm64", os |-> "linux"],
    [architecture |-> "amd64", os |-> "windows"] }

\* ManifestEntry: a digest and a platform
ManifestEntries ==
  { [digest |-> d, platform |-> pf] : d \in Digests, pf \in Platforms }

ManifestLists ==
  UNION { [1..n -> ManifestEntries] : n \in 0..MaxEntries }

\* bodies of a single manifest: no manifests field
ConcreteBodies ==
  { [json |-> TRUE, fmt |-> f, mediaType |-> mt, manifests |-> <<>>,
     content |-> c] :
      f \in {"compact", "indented"}, mt \in {"", MTManifestV2},
      c \in {"image1", "image2"} }

\* bodies with a manifests field, under any mediaType
ListBodies ==
  { [json |-> TRUE, fmt |-> "compact", mediaType |-> mt, manifests |-> ms,
     content |-> ""] :
      mt \in {"", MTManifestList, MTOCIIndex}, ms \in ManifestLists }

BadBody == [NoBody EXCEPT !.fmt = "text"]

\* what doRequest returns for a manifest request: an error, or the response
\* with its status, Content-Type header and body
ManifestAnswers ==
  { [kind |-> "err", status |-> 0, contentType |-> "", body |-> NoBody] }
    \cup { [kind |-> "resp", status |-> st, contentType |-> "",
            body |-> BadBody] : st \in {200, 401, 404} }
    \cup { [kind |-> "resp", status |-> 200, contentType |-> ct, body |-> b] :
             ct \in {"", MTManifestV2}, b \in ConcreteBodies }
    \cup UNION
         { { [kind |-> "resp", status |-> 200, contentType |-> ct,
              body |-> b] :
               b \in { lb \in ListBodies :
                         lb.mediaType = "" \/ ct = MTManifestV2 } } :
             ct \in {MTManifestV2, MTManifestList, MTOCIIndex} }

\* json.Decode into Manifest: the fields, without the formatting of the bytes
Decode(body) ==
  [MediaType |-> body.mediaType, Manifests |-> body.manifests,
   Content |-> body.content]

\* GetManifest, lines 310-313
isManifestList(manifest, contentType) ==
  \/ manifest.MediaType = MTManifestList
  \/ contentType = MTManifestList
  \/ manifest.MediaType = MTOCIIndex
  \/ contentType = MTOCIIndex

\* the loop of GetManifest taking the first entry of any architecture
RECURSIVE FindPlatformAnyArch(_, _)
FindPlatformAnyArch(ms, i) ==
  IF i > Len(ms) THEN 0
  ELSE IF ms[i].platform.os = "linux" THEN i
  ELSE FindPlatformAnyArch(ms, i + 1)

\* the loop of GetManifest without its return: the last match wins
RECURSIVE FindPlatformLast(_, _)
FindPlatformLast(ms, i) ==
  IF i > Len(ms) THEN 0
  ELSE LET later == FindPlatformLast(ms, i + 1)
       IN IF later # 0 THEN later
          ELSE IF ms[i].platform.architecture = "amd64"
                  /\ ms[i].platform.os = "linux" THEN i
          ELSE 0

\* the loop of GetManifest falling back to the first entry
RECURSIVE FindPlatformFallback(_, _)
FindPlatformFallback(ms, i) ==
  IF i > Len(ms) THEN (IF ms = <<>> THEN 0 ELSE 1)
  ELSE IF ms[i].platform.architecture = "amd64"
          /\ ms[i].platform.os = "linux" THEN i
  ELSE FindPlatformFallback(ms, i + 1)

\* GetManifest, lines 317-322: the index from i on of the first entry for
\* amd64/linux, 0 when the loop ends without one
RECURSIVE FindPlatform(_, _)
FindPlatform(ms, i) ==
  IF i > Len(ms) THEN 0
  ELSE IF ms[i].platform.architecture = "amd64"
          /\ ms[i].platform.os = "linux" THEN i
  ELSE FindPlatform(ms, i + 1)

ManifestError(text, st) ==
  [returned |-> TRUE, err |-> text, status |-> st, manifest |-> NoManifest,
   bytes |-> NoBody, contentType |-> ""]

\* GetManifest, lines 283-289: the request for name and reference
GetManifestCall(ref) ==
  /\ mpc = "idle"
  /\ mpc' = "fetching"
  /\ mkind' = "GetManifest"
  /\ mref' = ref
  /\ mreqs' = {ref}
  /\ mlist' = <<>>
  /\ mlast' = NoManifestAnswer
  /\ mret' = NoManifestRet
  /\ UNCHANGED <<clientVars, pushVars, localVars>>

\* GetManifest, lines 289-326: doRequest returns; a manifest list is
\* followed by the recursive call, which sends the next request
GetManifestResponse(r) ==
  /\ mpc = "fetching"
  /\ mkind = "GetManifest"
  /\ mlast' = r
  /\ UNCHANGED <<mkind, clientVars, pushVars, localVars>>
  /\ IF r.kind = "err"
       THEN /\ mret' = ManifestError("failed to get manifest", 0)
            /\ mpc' = "done"
            /\ UNCHANGED <<mref, mreqs, mlist>>
     ELSE IF r.status # 200
       THEN /\ mret' = ManifestError("unexpected status code", r.status)
            /\ mpc' = "done"
            /\ UNCHANGED <<mref, mreqs, mlist>>
     ELSE IF ~r.body.json
       THEN /\ mret' = ManifestError("failed to decode manifest", 0)
            /\ mpc' = "done"
            /\ UNCHANGED <<mref, mreqs, mlist>>
     ELSE
       LET manifest == Decode(r.body)
           i == FindPlatform(manifest.Manifests, 1)
       IN IF isManifestList(manifest, r.contentType)
            THEN /\ mlist' = manifest.Manifests
                 /\ IF i # 0
                      THEN /\ mref' = manifest.Manifests[i].digest
                           /\ mreqs' = mreqs \cup {mref'}
                           /\ UNCHANGED <<mpc, mret>>
                      ELSE /\ mret' =
                                ManifestError(
                                  "no amd64 manifest found in manifest list",
                                  0)
                           /\ mpc' = "done"
                           /\ UNCHANGED <<mref, mreqs>>
            ELSE /\ mret' = [returned |-> TRUE, err |-> "", status |-> 200,
                             manifest |-> manifest, bytes |-> NoBody,
                             contentType |-> ""]
                 /\ mpc' = "done"
                 /\ UNCHANGED <<mref, mreqs, mlist>>

\* GetManifestRaw, lines 330-336: the request for name and reference
GetManifestRawCall(ref) ==
  /\ mpc = "idle"
  /\ mpc' = "fetching"
  /\ mkind' = "GetManifestRaw"
  /\ mref' = ref
  /\ mreqs' = {ref}
  /\ mlist' = <<>>
  /\ mlast' = NoManifestAnswer
  /\ mret' = NoManifestRet
  /\ UNCHANGED <<clientVars, pushVars, localVars>>

\* GetManifestRaw resolving a manifest list as GetManifest does
GetManifestRawResponseResolve(r) ==
  /\ mpc = "fetching"
  /\ mkind = "GetManifestRaw"
  /\ mlast' = r
  /\ UNCHANGED <<mkind, clientVars, pushVars, localVars>>
  /\ IF r.kind = "err"
       THEN /\ mret' = ManifestError("failed to get manifest", 0)
            /\ mpc' = "done"
            /\ UNCHANGED <<mref, mreqs, mlist>>
     ELSE IF r.status # 200
       THEN /\ mret' = ManifestError("unexpected status code", r.status)
            /\ mpc' = "done"
            /\ UNCHANGED <<mref, mreqs, mlist>>
     ELSE IF /\ r.body.json
             /\ isManifestList(Decode(r.body), r.contentType)
             /\ FindPlatform(r.body.manifests, 1) # 0
       THEN /\ mlist' = r.body.manifests
            /\ mref' = r.body.manifests[FindPlatform(r.body.manifests, 1)].digest
            /\ mreqs' = mreqs \cup {mref'}
            /\ UNCHANGED <<mpc, mret>>
     ELSE /\ mret' = [returned |-> TRUE, err |-> "", status |-> 200,
                      manifest |-> NoManifest, bytes |-> r.body,
                      contentType |-> r.contentType]
          /\ mpc' = "done"
          /\ UNCHANGED <<mref, mreqs, mlist>>

\* GetManifestRaw, lines 336-356: doRequest returns
GetManifestRawResponse(r) ==
  /\ mpc = "fetching"
  /\ mkind = "GetManifestRaw"
  /\ mlast' = r
  /\ UNCHANGED <<mkind, mref, mreqs, mlist, clientVars, pushVars, localVars>>
  /\ mpc' = "done"
  /\ mret' =
       IF r.kind = "err" THEN ManifestError("failed to get manifest", 0)
       ELSE IF r.status # 200
         THEN ManifestError("unexpected status code", r.status)
       ELSE [returned |-> TRUE, err |-> "", status |-> 200,
             manifest |-> NoManifest, bytes |-> r.body,
             contentType |-> r.contentType]

\* the caller takes the result
ManifestReturn ==
  /\ mpc = "done"
  /\ mpc' = "idle"
  /\ mkind' = ""
  /\ mref' = ""
  /\ mreqs' = {}
  /\ mlist' = <<>>
  /\ mlast' = NoManifestAnswer
  /\ mret' = NoManifestRet
  /\ UNCHANGED <<clientVars, pushVars, localVars>>

References == {"latest"} \cup Digests

InitManifest ==
  /\ auth = [Username |-> "", Password |-> "", Token |-> ""]
  /\ ClientIdle
  /\ ManifestIdle
  /\ PushOff
  /\ LocalOff

NextManifest ==
  \/ \E ref \in References : GetManifestCall(ref)
  \/ \E r \in ManifestAnswers : GetManifestResponse(r)
  \/ \E ref \in References : GetManifestRawCall(ref)
  \/ \E r \in ManifestAnswers : GetManifestRawResponse(r)
  \/ ManifestReturn

SpecManifest == InitManifest /\ [][NextManifest]_vars

\* the registry answers every request and the client handles every answer
SpecManifestFair ==
  /\ SpecManifest
  /\ WF_vars(\E r \in ManifestAnswers : GetManifestResponse(r))
  /\ WF_vars(\E r \in ManifestAnswers : GetManifestRawResponse(r))

----------------------------------------------------------------------------
(* pushCmd.Run, Client.UploadBlob, StartBlobUpload, UploadBlobMonolithic   *)

\* layers of the pushed manifest
MaxLayers == 2

\* strings.Contains for a non-empty substring
Contains(s, sub) ==
  \E i \in 1..(Len(s) - Len(sub) + 1) : SubSeq(s, i, i + Len(sub) - 1) = sub

DecimalDigits == <<"0", "1", "2", "3", "4", "5", "6", "7", "8", "9">>

\* fmt's %d for a natural number
RECURSIVE Itoa(_)
Itoa(n) ==
  IF n < 10 THEN <<DecimalDigits[n + 1]>>
  ELSE Itoa(n \div 10) \o <<DecimalDigits[(n % 10) + 1]>>

TxtBlobUploadInvalid ==
  <<"B", "L", "O", "B", "_", "U", "P", "L", "O", "A", "D", "_", "I", "N",
    "V", "A", "L", "I", "D">>
TxtAlreadyExists ==
  <<"a", "l", "r", "e", "a", "d", "y", " ", "e", "x", "i", "s", "t", "s">>
TxtExistBlob ==
  <<"e", "x", "i", "s", "t", " ", "b", "l", "o", "b">>

\* error texts of blob.go and of doRequest
ErrOpenFile ==
  <<"f", "a", "i", "l", "e", "d", " ", "t", "o", " ", "o", "p", "e", "n",
    " ", "f", "i", "l", "e", ":", " ">>
ErrStartUpload ==
  <<"f", "a", "i", "l", "e", "d", " ", "t", "o", " ", "s", "t", "a", "r",
    "t", " ", "u", "p", "l", "o", "a", "d", ":", " ">>
ErrUploadBlob ==
  <<"f", "a", "i", "l", "e", "d", " ", "t", "o", " ", "u", "p", "l", "o",
    "a", "d", " ", "b", "l", "o", "b", ":", " ">>
ErrUnexpectedStatus ==
  <<"u", "n", "e", "x", "p", "e", "c", "t", "e", "d", " ", "s", "t", "a",
    "t", "u", "s", " ", "c", "o", "d", "e", " ">>
ErrNoUploadURL ==
  <<"n", "o", " ", "u", "p", "l", "o", "a", "d", " ", "U", "R", "L", " ",
    "i", "n", " ", "r", "e", "s", "p", "o", "n", "s", "e">>
ErrRequestFailed ==
  <<"r", "e", "q", "u", "e", "s", "t", " ", "f", "a", "i", "l", "e", "d",
    ":", " ", "t", "i", "m", "e", "o", "u", "t">>

\* os.Open errors: the path of the blob file is part of the text
OpenErrLayer ==
  <<"o", "p", "e", "n", " ", "/", "l", ".", "t", "a", "r", ".", "g", "z",
    ":", " ", "n", "o", " ", "s", "u", "c", "h", " ", "f", "i", "l", "e">>
OpenErrNamed ==
  <<"o", "p", "e", "n", " ", "/", "B", "L", "O", "B", "_", "U", "P", "L",
    "O", "A", "D", "_", "I", "N", "V", "A", "L", "I", "D", "/", "l", ".",
    "t", "a", "r", ".", "g", "z", ":", " ", "n", "o", " ", "s", "u", "c",
    "h", " ", "f", "i", "l", "e">>
OpenErrors == {OpenErrLayer, OpenErrNamed}

\* response bodies of the blob PUT
BodyCreated ==<<>>
BodyAlreadyExists ==
  <<"b", "l", "o", "b", " ", "a", "l", "r", "e", "a", "d", "y", " ", "e",
    "x", "i", "s", "t", "s">>
BodyUploadInvalid ==
  <<"{", QUOTE, "c", "o", "d", "e", QUOTE, ":", QUOTE, "B", "L", "O", "B",
    "_", "U", "P", "L", "O", "A", "D", "_", "I", "N", "V", "A", "L", "I",
    "D", QUOTE, "}">>
BodyExistBlob ==
  <<"e", "x", "i", "s", "t", " ", "b", "l", "o", "b">>
BodyDenied ==
  <<"d", "e", "n", "i", "e", "d">>
BodyCapitals ==
  <<"A", "l", "r", "e", "a", "d", "y", " ", "E", "x", "i", "s", "t", "s">>
PutBodies ==
  { BodyCreated, BodyAlreadyExists, BodyUploadInvalid, BodyExistBlob,
    BodyDenied, BodyCapitals }

\* Location headers of the upload POST
LocNone ==<<>>
LocRelative ==
  <<"/", "n", "/", "u", "/", "1">>
LocAbsolute ==
  <<"h", "t", "t", "p", ":", "/", "/", "r", "/", "v", "2", "/", "n", "/",
    "u", "/", "1">>
LocQuery ==
  <<"h", "t", "t", "p", "s", ":", "/", "/", "r", "/", "v", "2", "/", "n",
    "/", "u", "/", "1", "?", "s", "=", "1">>
LocRelativeV2 == <<"/", "v", "2", "/", "n", "/", "u", "/", "1">>
Locations == {LocNone, LocRelative, LocRelativeV2, LocAbsolute, LocQuery}

HttpPrefix ==
  <<"h", "t", "t", "p", ":", "/", "/">>
HttpsPrefix ==
  <<"h", "t", "t", "p", "s", ":", "/", "/">>
BaseURL ==
  <<"h", "t", "t", "p", "s", ":", "/", "/", "r">>
V2Prefix ==
  <<"/", "v", "2">>
DigestParam ==
  <<"d", "i", "g", "e", "s", "t", "=">>

PostStatuses == {200, 201, 202, 401, 404}
PutStatuses == {200, 201, 202, 400}

\* what doRequest returns for the upload POST
PostAnswers ==
  { [kind |-> "err", status |-> 0, location |-> <<>>, body |-> <<>>] }
    \cup { [kind |-> "resp", status |-> st, location |-> l, body |-> <<>>] :
             st \in PostStatuses, l \in Locations }

\* what c.httpClient.Do returns for a PUT
PutAnswers ==
  { [kind |-> "err", status |-> 0, location |-> <<>>, body |-> <<>>] }
    \cup { [kind |-> "resp", status |-> st, location |-> <<>>, body |-> b] :
             st \in PutStatuses, b \in PutBodies }

\* the digest of blob i of the manifest: 0 the config, i the i-th layer
BlobDigest(i) == <<"d">> \o Itoa(i)

\* StartBlobUpload without the status test
StartBlobUploadAnyStatus(r) ==
  IF r.kind = "err"
    THEN [err |-> ErrStartUpload \o ErrRequestFailed, uploadURL |-> <<>>]
  ELSE IF r.location = <<>>
    THEN [err |-> ErrNoUploadURL, uploadURL |-> <<>>]
  ELSE IF ~HasPrefix(r.location, HttpPrefix)
          /\ ~HasPrefix(r.location, HttpsPrefix)
    THEN [err |-> <<>>, uploadURL |-> BaseURL \o V2Prefix \o r.location]
  ELSE [err |-> <<>>, uploadURL |-> r.location]

\* StartBlobUpload, lines 179-200: the error or the upload URL
StartBlobUpload(r) ==
  IF r.kind = "err"
    THEN [err |-> ErrStartUpload \o ErrRequestFailed, uploadURL |-> <<>>]
  ELSE IF r.status # 202
    THEN [err |-> ErrUnexpectedStatus \o Itoa(r.status), uploadURL |-> <<>>]
  ELSE IF r.location = <<>>
    THEN [err |-> ErrNoUploadURL, uploadURL |-> <<>>]
  ELSE IF ~HasPrefix(r.location, HttpPrefix)
          /\ ~HasPrefix(r.location, HttpsPrefix)
    THEN [err |-> <<>>, uploadURL |-> BaseURL \o V2Prefix \o r.location]
  ELSE [err |-> <<>>, uploadURL |-> r.location]

\* UploadBlobMonolithic, lines 206-221: the PUT request with the digest
\* query parameter added to the upload URL
BlobPutRequest(i, uploadURL) ==
  LET parts == SplitN2(uploadURL, "?")
      rawQuery == IF Len(parts) = 2 THEN parts[2] ELSE <<>>
  IN [kind |-> "blob-put", blob |-> i, url |-> parts[1],
      query |-> IF rawQuery # <<>>
                  THEN rawQuery \o <<"&">> \o DigestParam \o BlobDigest(i)
                  ELSE DigestParam \o BlobDigest(i)]

\* UploadBlobMonolithic taking every 2xx status as success
UploadBlobMonolithicAny2xx(r) ==
  IF r.kind = "err" THEN ErrRequestFailed
  ELSE IF r.status < 200 \/ r.status > 299
    THEN ErrUnexpectedStatus \o Itoa(r.status) \o <<":", " ">> \o r.body
  ELSE <<>>

\* UploadBlobMonolithic, lines 228-239: the error text, empty for nil
UploadBlobMonolithic(r) ==
  IF r.kind = "err" THEN ErrRequestFailed
  ELSE IF r.status # 201
    THEN ErrUnexpectedStatus \o Itoa(r.status) \o <<":", " ">> \o r.body
  ELSE <<>>

\* the test of pushCmd.Run without its third substring
AlreadyExistsErrorTwo(text) ==
  \/ Contains(text, TxtBlobUploadInvalid)
  \/ Contains(text, TxtAlreadyExists)

\* pushCmd.Run, lines 97-99 and 118-120: the error says the blob exists
AlreadyExistsError(text) ==
  \/ Contains(text, TxtBlobUploadInvalid)
  \/ Contains(text, TxtAlreadyExists)
  \/ Contains(text, TxtExistBlob)

\* UploadBlob, lines 149-165: open the file of blob pidx, then the POST
UploadBlobOpen(e) ==
  /\ ppc = "open"
  /\ UNCHANGED <<nLayers, isList, pidx, postResp, putResp, skipped, uploaded,
                 clientVars, manifestVars, localVars>>
  /\ IF e # <<>>
       THEN /\ uerr' = ErrOpenFile \o e
            /\ ppc' = "returned"
            /\ UNCHANGED plog
       ELSE /\ plog' = Append(plog, [kind |-> "blob-post", blob |-> pidx,
                                     url |-> <<>>, query |-> <<>>])
            /\ ppc' = "post"
            /\ UNCHANGED uerr

\* StartBlobUpload, lines 179-200, and UploadBlob, lines 162-168: the answer
\* to the POST arrives; with an upload URL the PUT is sent
StartBlobUploadResponse(r) ==
  /\ ppc = "post"
  /\ postResp' = r
  /\ UNCHANGED <<nLayers, isList, pidx, putResp, skipped, uploaded,
                 clientVars, manifestVars, localVars>>
  /\ LET s == StartBlobUpload(r)
     IN IF s.err # <<>>
          THEN /\ uerr' = ErrStartUpload \o s.err
               /\ ppc' = "returned"
               /\ UNCHANGED plog
          ELSE /\ plog' = Append(plog, BlobPutRequest(pidx, s.uploadURL))
               /\ ppc' = "put"
               /\ UNCHANGED uerr

\* UploadBlobMonolithic, lines 228-239, and UploadBlob, lines 168-172: the
\* answer to the PUT arrives
UploadBlobMonolithicResponse(r) ==
  /\ ppc = "put"
  /\ putResp' = r
  /\ uerr' = IF UploadBlobMonolithic(r) # <<>>
               THEN ErrUploadBlob \o UploadBlobMonolithic(r)
               ELSE <<>>
  /\ ppc' = "returned"
  /\ UNCHANGED <<nLayers, isList, pidx, plog, postResp, skipped, uploaded,
                 clientVars, manifestVars, localVars>>

\* pushCmd.Run, lines 94-127: UploadBlob has returned for blob pidx; the
\* push stops, goes on with the next blob, or has done with the blobs
PushHandleUpload ==
  /\ ppc = "returned"
  /\ UNCHANGED <<nLayers, isList, plog, clientVars, manifestVars, localVars>>
  /\ IF uerr # <<>> /\ ~AlreadyExistsError(uerr)
       THEN /\ ppc' = "failed"
            /\ UNCHANGED <<pidx, postResp, putResp, uerr, skipped, uploaded>>
       ELSE /\ skipped' = IF uerr # <<>> THEN skipped \cup {pidx} ELSE skipped
            /\ uploaded' = IF uerr = <<>> THEN uploaded \cup {pidx}
                           ELSE uploaded
            /\ postResp' = NoAnswer
            /\ putResp' = NoAnswer
            /\ uerr' = <<>>
            /\ IF pidx < nLayers
                 THEN /\ pidx' = pidx + 1
                      /\ ppc' = "open"
                 ELSE /\ UNCHANGED pidx
                      /\ ppc' = "stage"

\* the manifest stage without the test for a manifest list or index
PushManifestAnyway ==
  /\ ppc = "stage"
  /\ UNCHANGED <<nLayers, isList, pidx, postResp, putResp, uerr, skipped,
                 uploaded, clientVars, manifestVars, localVars>>
  /\ plog' = Append(plog, [kind |-> "manifest-put", blob |-> 0 - 1,
                           url |-> <<>>, query |-> <<>>])
  /\ ppc' = "manifest"

\* pushCmd.Run, lines 130-174: the stored manifest is read again; a manifest
\* list or index stops the push, any other manifest is sent
PushManifest ==
  /\ ppc = "stage"
  /\ UNCHANGED <<nLayers, isList, pidx, postResp, putResp, uerr, skipped,
                 uploaded, clientVars, manifestVars, localVars>>
  /\ IF isList
       THEN /\ ppc' = "failed"
            /\ UNCHANGED plog
       ELSE /\ plog' = Append(plog, [kind |-> "manifest-put", blob |-> 0 - 1,
                                     url |-> <<>>, query |-> <<>>])
            /\ ppc' = "manifest"

\* PutManifest, lines 403-414, and pushCmd.Run, lines 174-179
PutManifestResponse(r) ==
  /\ ppc = "manifest"
  /\ putResp' = r
  /\ ppc' = IF r.kind = "resp" /\ r.status = 201 THEN "pushed" ELSE "failed"
  /\ UNCHANGED <<nLayers, isList, pidx, plog, postResp, uerr, skipped,
                 uploaded, clientVars, manifestVars, localVars>>

\* a push that has loaded the stored manifest and built its client
InitPush ==
  /\ auth = [Username |-> "", Password |-> "", Token |-> ""]
  /\ ClientIdle
  /\ ManifestIdle
  /\ LocalOff
  /\ ppc = "open"
  /\ nLayers \in 0..MaxLayers
  /\ isList \in BOOLEAN
  /\ pidx = 0
  /\ plog = <<>>
  /\ postResp = NoAnswer
  /\ putResp = NoAnswer
  /\ uerr = <<>>
  /\ skipped = {}
  /\ uploaded = {}

NextPush ==
  \/ \E e \in {<<>>} \cup OpenErrors : UploadBlobOpen(e)
  \/ \E r \in PostAnswers : StartBlobUploadResponse(r)
  \/ \E r \in PutAnswers : UploadBlobMonolithicResponse(r)
  \/ PushHandleUpload
  \/ PushManifest
  \/ \E r \in PutAnswers : PutManifestResponse(r)

SpecPush == InitPush /\ [][NextPush]_vars

----------------------------------------------------------------------------
(* Client.DownloadBlob, Client.DownloadBlobWithProgress, progressWriter    *)

\* bytes of the longest blob body
MaxBody == 3

BlobStatuses == {200, 206, 401, 404}

\* what doRequest returns for the blob GET: an error, or a response with
\* its status, the length of its body and its declared Content-Length
BlobAnswers ==
  { [kind |-> "err", status |-> 0, len |-> 0, contentLength |-> 0] }
    \cup UNION { { [kind |-> "resp", status |-> st, len |-> n,
                     contentLength |-> cl] :
                      st \in BlobStatuses, cl \in {n, 0 - 1} } :
                  n \in 0..MaxBody }

\* os.MkdirAll and os.Create of the destination
CreateOutcomes == {"ok", "mkdir failed", "create failed"}

\* the download with the file created before the status is looked at
DownloadBlobResponseCreateFirst(r, c) ==
  /\ dpc = "request"
  /\ danswer' = r
  /\ UNCHANGED <<dfn, dprogress, dfile0, dwritten, dcalls, clientVars,
                 manifestVars, pushVars, encodingVars, storeVars, lateVars>>
  /\ IF r.kind = "err"
       THEN /\ derr' = "failed to get blob"
            /\ dpc' = "done"
            /\ UNCHANGED <<dfile, dleft>>
     ELSE IF c # "ok"
       THEN /\ derr' = "failed to create " \o c
            /\ dpc' = "done"
            /\ UNCHANGED <<dfile, dleft>>
     ELSE IF r.status # 200
       THEN /\ derr' = "unexpected status code"
            /\ dpc' = "done"
            /\ dfile' = 0
            /\ UNCHANGED dleft
     ELSE /\ dfile' = 0
          /\ dleft' = r.len
          /\ dpc' = "copying"
          /\ UNCHANGED derr

\* DownloadBlob, lines 16-36, DownloadBlobWithProgress, lines 50-80: doRequest
\* returns; with status 200 the destination file is created, truncated
DownloadBlobResponse(r, c) ==
  /\ dpc = "request"
  /\ danswer' = r
  /\ UNCHANGED <<dfn, dprogress, dfile0, dwritten, dcalls, clientVars,
                 manifestVars, pushVars, encodingVars, storeVars, lateVars>>
  /\ IF r.kind = "err"
       THEN /\ derr' = "failed to get blob"
            /\ dpc' = "done"
            /\ UNCHANGED <<dfile, dleft>>
     ELSE IF r.status # 200
       THEN /\ derr' = "unexpected status code"
            /\ dpc' = "done"
            /\ UNCHANGED <<dfile, dleft>>
     ELSE IF c # "ok"
       THEN /\ derr' = "failed to create " \o c
            /\ dpc' = "done"
            /\ UNCHANGED <<dfile, dleft>>
     ELSE /\ dfile' = 0
          /\ dleft' = r.len
          /\ dpc' = "copying"
          /\ UNCHANGED derr

\* progressWriter.Write, lines 97-106: the calls of progress after a write
\* of nw bytes; DownloadBlob writes to the file without a progressWriter
ProgressWrite(nw) ==
  IF dfn = "DownloadBlobWithProgress" /\ dprogress
    THEN Append(dcalls, [written |-> dwritten + nw,
                         total |-> danswer.contentLength])
    ELSE dcalls

\* io.Copy, one turn of its loop: Read gives nr > 0 bytes of the body and
\* Write puts nw of them in the file; a short write ends the copy
DownloadBlobCopy(nr, nw) ==
  /\ dpc = "copying"
  /\ nr \in 1..dleft
  /\ nw \in 0..nr
  /\ dfile' = dfile + nw
  /\ dwritten' = dwritten + nw
  /\ dcalls' = ProgressWrite(nw)
  /\ dleft' = dleft - nr
  /\ IF nw < nr
       THEN /\ derr' = "failed to write blob"
            /\ dpc' = "done"
       ELSE UNCHANGED <<derr, dpc>>
  /\ UNCHANGED <<dfn, dprogress, danswer, dfile0, clientVars, manifestVars,
                 pushVars, encodingVars, storeVars, lateVars>>

\* io.Copy: Read fails before the end of the body
DownloadBlobReadError ==
  /\ dpc = "copying"
  /\ dleft > 0
  /\ derr' = "failed to write blob"
  /\ dpc' = "done"
  /\ UNCHANGED <<dfn, dprogress, danswer, dfile0, dfile, dleft, dwritten,
                 dcalls, clientVars, manifestVars, pushVars, encodingVars,
                 storeVars, lateVars>>

\* io.Copy: Read gives io.EOF, the download returns nil
DownloadBlobEOF ==
  /\ dpc = "copying"
  /\ dleft = 0
  /\ derr' = ""
  /\ dpc' = "done"
  /\ UNCHANGED <<dfn, dprogress, danswer, dfile0, dfile, dleft, dwritten,
                 dcalls, clientVars, manifestVars, pushVars, encodingVars,
                 storeVars, lateVars>>

\* the loop of pull going on after a transfer that failed
PullSaveBlobGoOn(saved) ==
  /\ bpc = "transfer"
  /\ dpc = "done"
  /\ blog' = Append(blog, [blob |-> bidx, ok |-> derr = "" /\ saved])
  /\ UNCHANGED <<bcount, dfn, dprogress, dfile0, clientVars, manifestVars,
                 pushVars, encodingVars, storeVars, parseVars>>
  /\ IF bidx < bcount
       THEN /\ bidx' = bidx + 1
            /\ dpc' = "request"
            /\ danswer' = NoBlobAnswer
            /\ dfile' = dfile0
            /\ dleft' = 0
            /\ dwritten' = 0
            /\ dcalls' = <<>>
            /\ derr' = ""
            /\ UNCHANGED bpc
       ELSE /\ bpc' = "fetched"
            /\ UNCHANGED <<bidx, dpc, danswer, dfile, dleft, dwritten, dcalls,
                           derr>>

\* pullCmd.Run, lines 92-127: downloadBlobWithProgress has returned for blob
\* bidx and SaveConfig or SaveLayer stores it; an error of either ends the
\* pull, else the next layer is downloaded or the loop is over
PullSaveBlob(saved) ==
  /\ bpc = "transfer"
  /\ dpc = "done"
  /\ blog' = Append(blog, [blob |-> bidx, ok |-> derr = "" /\ saved])
  /\ UNCHANGED <<bcount, dfn, dprogress, dfile0, clientVars, manifestVars,
                 pushVars, encodingVars, storeVars, parseVars>>
  /\ IF derr # "" \/ ~saved
       THEN /\ bpc' = "failed"
            /\ UNCHANGED <<bidx, dpc, danswer, dfile, dleft, dwritten, dcalls,
                           derr>>
     ELSE IF bidx < bcount
       THEN /\ bidx' = bidx + 1
            /\ dpc' = "request"
            /\ danswer' = NoBlobAnswer
            /\ dfile' = dfile0
            /\ dleft' = 0
            /\ dwritten' = 0
            /\ dcalls' = <<>>
            /\ derr' = ""
            /\ UNCHANGED bpc
       ELSE /\ bpc' = "fetched"
            /\ UNCHANGED <<bidx, dpc, danswer, dfile, dleft, dwritten, dcalls,
                           derr>>

\* a download called on a client, the destination holding a file or not
InitDownload ==
  /\ auth = [Username |-> "", Password |-> "", Token |-> ""]
  /\ ClientIdle
  /\ ManifestIdle
  /\ PushOff
  /\ EncodingOff
  /\ StoreOff
  /\ ParseOff
  /\ dpc = "request"
  /\ dfn \in {"DownloadBlob", "DownloadBlobWithProgress"}
  /\ dprogress \in IF dfn = "DownloadBlob" THEN {FALSE} ELSE BOOLEAN
  /\ danswer = NoBlobAnswer
  /\ dfile0 \in {0 - 1, 2}
  /\ dfile = dfile0
  /\ dleft = 0
  /\ dwritten = 0
  /\ dcalls = <<>>
  /\ derr = ""
  /\ bpc \in IF dfn = "DownloadBlobWithProgress" /\ dprogress
              THEN {"off", "transfer"} ELSE {"off"}
  /\ bcount \in IF bpc = "transfer" THEN 0..MaxLayers ELSE {0}
  /\ bidx = 0
  /\ blog = <<>>

NextDownload ==
  \/ \E r \in BlobAnswers, c \in CreateOutcomes : DownloadBlobResponse(r, c)
  \/ \E nr \in 1..MaxBody, nw \in 0..MaxBody : DownloadBlobCopy(nr, nw)
  \/ DownloadBlobReadError
  \/ DownloadBlobEOF
  \/ \E saved \in BOOLEAN : PullSaveBlob(saved)

\* one run of pull or of push
InitTransfer == InitDownload \/ InitPush

NextTransfer == NextDownload \/ NextPush

SpecTransfer == InitTransfer /\ [][NextTransfer]_vars

SpecDownload == InitDownload /\ [][NextDownload]_vars

----------------------------------------------------------------------------
(* Layout: GetImageDir, ListImages, decodeOldEncoding, encodeOldEncoding   *)

\* segments of the longest repository path
MaxSegments == 2

\* strings.ReplaceAll for a non-empty old
RECURSIVE ReplaceAll(_, _, _)
ReplaceAll(s, old, new) ==
  IF Len(s) < Len(old) THEN s
  ELSE IF SubSeq(s, 1, Len(old)) = old
    THEN new \o ReplaceAll(SubSeq(s, Len(old) + 1, Len(s)), old, new)
  ELSE <<s[1]>> \o ReplaceAll(Tail(s), old, new)

\* strings.LastIndex for a one-character substring, counted from 1; 0 for -1
LastIndex(s, ch) ==
  IF \E i \in 1..Len(s) : s[i] = ch
    THEN CHOOSE i \in 1..Len(s) :
           s[i] = ch /\ \A j \in (i + 1)..Len(s) : s[j] # ch
    ELSE 0

TokColon == <<"_", "C", "O", "L", "O", "N", "_">>
TokSlash == <<"_", "S", "L", "A", "S", "H", "_">>

\* GetImageDir, lines 32-33: the name of the directory under images/
GetImageDir(imageName) ==
  ReplaceAll(ReplaceAll(imageName, <<":">>, TokColon), <<"/">>, TokSlash)

\* decodeOldEncoding with the first underscore taken as the tag separator
decodeOldEncodingFirst(dirName) ==
  LET first == IF \E i \in 1..Len(dirName) : dirName[i] = "_"
                 THEN CHOOSE i \in 1..Len(dirName) :
                        /\ dirName[i] = "_"
                        /\ \A j \in 1..(i - 1) : dirName[j] # "_"
                 ELSE 0
  IN IF first = 0 THEN dirName
     ELSE SubSeq(dirName, 1, first - 1) \o <<":">>
            \o ReplaceAll(SubSeq(dirName, first + 1, Len(dirName)),
                          <<"_">>, <<"/">>)

\* decodeOldEncoding, lines 73-85
decodeOldEncoding(dirName) ==
  LET lastUnderscore == LastIndex(dirName, "_")
  IN IF lastUnderscore = 0 THEN dirName
     ELSE ReplaceAll(SubSeq(dirName, 1, lastUnderscore - 1), <<"_">>, <<"/">>)
            \o <<":">> \o SubSeq(dirName, lastUnderscore + 1, Len(dirName))

\* encodeOldEncoding, lines 123-127
encodeOldEncoding(imageName) ==
  ReplaceAll(ReplaceAll(imageName, <<":">>, <<"_">>), <<"/">>, <<"_">>)

\* ListImages, lines 102-113: the image name of one directory entry
ListImagesName(dirName) ==
  IF Contains(dirName, TokSlash) \/ Contains(dirName, TokColon)
    THEN ReplaceAll(ReplaceAll(dirName, TokSlash, <<"/">>), TokColon, <<":">>)
    ELSE decodeOldEncoding(dirName)

\* the parts image references are made of
Hosts == {<<>>, <<"r">>}
Ports == {<<>>, <<"5">>}
Segments == {<<"a">>, <<"b">>, <<"a", "_", "b">>}
Tags ==
  { <<>>, <<"v">>, <<"v", "_", "1">>,
    <<"A", "_", "C", "O", "L", "O", "N", "_", "B">> }

Paths == UNION { [1..n -> Segments] : n \in 1..MaxSegments }

\* references without a host, with a host, with a host and a port; with
\* and without a tag
RefParts ==
  { [host |-> h, port |-> p, path |-> ps, tag |-> t] :
      h \in Hosts, p \in Ports, ps \in Paths, t \in Tags }

ImageRefs == { r \in RefParts : r.host = <<>> => r.port = <<>> }

RECURSIVE JoinPath(_)
JoinPath(ps) ==
  IF Len(ps) = 1 THEN ps[1]
  ELSE ps[1] \o <<"/">> \o JoinPath(Tail(ps))

\* the reference as the user writes it: host:port/path:tag
RefString(r) ==
  (IF r.host = <<>> THEN <<>>
   ELSE r.host \o (IF r.port = <<>> THEN <<>> ELSE <<":">> \o r.port)
          \o <<"/">>)
    \o JoinPath(r.path)
    \o (IF r.tag = <<>> THEN <<>> ELSE <<":">> \o r.tag)

\* GetImageDir gives the directory name of the reference
EncodeCurrent ==
  /\ epc = "ref"
  /\ escheme' = "current"
  /\ edir' = GetImageDir(RefString(eref))
  /\ epc' = "encoded"
  /\ UNCHANGED <<eref, eimage, clientVars, manifestVars, pushVars,
                 downloadVars, storeVars, lateVars>>

\* encodeOldEncoding gives the directory name of the reference
EncodeOld ==
  /\ epc = "ref"
  /\ escheme' = "old"
  /\ edir' = encodeOldEncoding(RefString(eref))
  /\ epc' = "encoded"
  /\ UNCHANGED <<eref, eimage, clientVars, manifestVars, pushVars,
                 downloadVars, storeVars, lateVars>>

\* ListImages reads the directory GetImageDir made
DecodeCurrent ==
  /\ epc = "encoded"
  /\ escheme = "current"
  /\ eimage' = ListImagesName(edir)
  /\ epc' = "decoded"
  /\ UNCHANGED <<eref, escheme, edir, clientVars, manifestVars, pushVars,
                 downloadVars, storeVars, lateVars>>

\* decodeOldEncoding reads the name encodeOldEncoding made
DecodeOld ==
  /\ epc = "encoded"
  /\ escheme = "old"
  /\ eimage' = decodeOldEncoding(edir)
  /\ epc' = "decoded"
  /\ UNCHANGED <<eref, escheme, edir, clientVars, manifestVars, pushVars,
                 downloadVars, storeVars, lateVars>>

InitEncoding ==
  /\ auth = [Username |-> "", Password |-> "", Token |-> ""]
  /\ ClientIdle
  /\ ManifestIdle
  /\ PushOff
  /\ DownloadOff
  /\ StoreOff
  /\ LateOff
  /\ epc = "ref"
  /\ eref \in ImageRefs
  /\ escheme = ""
  /\ edir = <<>>
  /\ eimage = <<>>

NextEncoding ==
  \/ EncodeCurrent
  \/ EncodeOld
  \/ DecodeCurrent
  \/ DecodeOld

SpecEncoding == InitEncoding /\ [][NextEncoding]_vars

----------------------------------------------------------------------------
(* Store, Layout.findImageDir, RemoveImage, tagCmd.Run, the store part of  *)
(* pullCmd.Run                                                             *)

\* operations on the store in one run
MaxOps == 2

\* a:1 and b:2, and a_1, whose directory has the old name of a:1
RefA == <<"a", ":", "1">>
RefB == <<"b", ":", "2">>
RefU == <<"a", "_", "1">>
StoreRefs == {RefA, RefB, RefU}

DirNames ==
  { GetImageDir(r) : r \in StoreRefs }
    \cup { encodeOldEncoding(r) : r \in StoreRefs }

DigestA == <<"s", ":", "a">>
DigestB == <<"s", ":", "b">>

MTOCIManifest == "application/vnd.oci.image.manifest.v1+json"

\* the bytes of a manifest file: how the JSON is laid out, the top-level
\* mediaType, the media types of config and layers, the manifests field,
\* whether there are fields the Manifest struct does not have, the digest of
\* the config (the content of that blob, in the model), the layers
NoBytes ==
  [fmt |-> "", mediaType |-> "", blobTypes |-> "", manifestsField |-> "",
   extra |-> FALSE, config |-> "", layers |-> <<>>]

\* a Docker manifest with annotations, as a registry sends it
RawDocker ==
  [fmt |-> "compact", mediaType |-> MTManifestV2, blobTypes |-> "docker",
   manifestsField |-> "absent", extra |-> TRUE, config |-> "c1",
   layers |-> <<DigestA>>]

\* a Docker manifest laid out as json.MarshalIndent lays out a Manifest
RawIndented ==
  [fmt |-> "indent2", mediaType |-> MTManifestV2, blobTypes |-> "docker",
   manifestsField |-> "null", extra |-> FALSE, config |-> "c2",
   layers |-> <<DigestA, DigestB>>]

\* an OCI image manifest
RawOCI ==
  [fmt |-> "compact", mediaType |-> MTOCIManifest, blobTypes |-> "oci",
   manifestsField |-> "absent", extra |-> FALSE, config |-> "c3",
   layers |-> <<DigestB>>]

\* bytes that are not JSON
RawText == [NoBytes EXCEPT !.fmt = "text"]

\* the concrete manifest the registry sends to a pull, with its Content-Type
RawAnswers ==
  { [contentType |-> MTManifestV2, body |-> RawDocker],
    [contentType |-> MTManifestV2, body |-> RawIndented],
    [contentType |-> MTOCIManifest, body |-> RawOCI] }

\* json.Unmarshal into registry.Manifest: the fields of the struct
UnmarshalManifest(data) ==
  [MediaType |-> data.mediaType, BlobTypes |-> data.blobTypes,
   Manifests |-> IF data.manifestsField = "list" THEN "list" ELSE "nil",
   Config |-> data.config, Layers |-> data.layers]

\* json.MarshalIndent of a registry.Manifest: two-space layout, the fields of
\* the struct only, manifests written as null when the slice is nil
MarshalIndent(manifest) ==
  [fmt |-> "indent2", mediaType |-> manifest.MediaType,
   blobTypes |-> manifest.BlobTypes,
   manifestsField |-> IF manifest.Manifests = "list" THEN "list" ELSE "null",
   extra |-> FALSE, config |-> manifest.Config, layers |-> manifest.Layers]

\* pullCmd.Run, lines 168-181: bytes.ReplaceAll of the OCI media types
ConvertOCI(raw) ==
  IF raw.contentType = MTOCIManifest
    THEN [raw.body EXCEPT
            !.blobTypes = IF @ = "oci" THEN "docker" ELSE @,
            !.mediaType = IF @ = MTOCIManifest THEN MTManifestV2 ELSE @]
    ELSE raw.body

NoFile == [present |-> FALSE, data |-> NoBytes]

\* a directory under images/: its manifest.json, its config.json, its
\* layers directory and the files in it
NoDir ==
  [exists |-> FALSE, manifest |-> NoFile, config |-> "", layersDir |-> FALSE,
   layers |-> {}]

\* a directory an earlier generation of the store wrote
OldDir ==
  [exists |-> TRUE, manifest |-> [present |-> TRUE, data |-> RawIndented],
   config |-> RawIndented.config, layersDir |-> TRUE,
   layers |-> { [name |-> <<"s", "_", "a">>, content |-> DigestA],
                [name |-> <<"s", "_", "b">>, content |-> DigestB] }]

\* GetLayerPath, lines 54-58: the file name of a layer, without .tar.gz
GetLayerPath(digest) == ReplaceAll(digest, <<":">>, <<"_">>)

\* CreateImageDir, lines 61-69: MkdirAll of the layers directory
CreateImageDir(f, imageName) ==
  [f EXCEPT ![GetImageDir(imageName)] =
     [@ EXCEPT !.exists = TRUE, !.layersDir = TRUE]]

\* SaveManifestRaw writing the bytes json.MarshalIndent gives for them
SaveManifestRawMarshalled(f, imageName, data) ==
  [CreateImageDir(f, imageName) EXCEPT
     ![GetImageDir(imageName)].manifest =
        [present |-> TRUE, data |-> MarshalIndent(UnmarshalManifest(data))]]

\* SaveManifestRaw, lines 232-245
SaveManifestRaw(f, imageName, data) ==
  [CreateImageDir(f, imageName) EXCEPT
     ![GetImageDir(imageName)].manifest = [present |-> TRUE, data |-> data]]

\* SaveManifest, lines 210-229
SaveManifest(f, imageName, manifest) ==
  [CreateImageDir(f, imageName) EXCEPT
     ![GetImageDir(imageName)].manifest =
        [present |-> TRUE, data |-> MarshalIndent(manifest)]]

\* LoadManifestRaw, lines 265-274: the error and the bytes
LoadManifestRaw(f, imageName) ==
  LET file == f[GetImageDir(imageName)].manifest
  IN IF file.present THEN [err |-> "", data |-> file.data]
     ELSE [err |-> "failed to read manifest", data |-> NoBytes]

\* SaveConfig, lines 277-290
SaveConfig(f, imageName, data) ==
  [CreateImageDir(f, imageName) EXCEPT
     ![GetImageDir(imageName)].config = data]

\* copyFile: the files of a directory after content is written under name
WriteLayerFile(files, name, content) ==
  { x \in files : x.name # name } \cup {[name |-> name, content |-> content]}

\* SaveLayer, lines 305-321
SaveLayer(f, imageName, digest, content) ==
  [f EXCEPT ![GetImageDir(imageName)] =
     [@ EXCEPT !.exists = TRUE, !.layersDir = TRUE,
               !.layers = WriteLayerFile(@, GetLayerPath(digest), content)]]

RECURSIVE SaveLayers(_, _, _)
SaveLayers(f, imageName, digests) ==
  IF digests = <<>> THEN f
  ELSE SaveLayers(SaveLayer(f, imageName, Head(digests), Head(digests)),
                  imageName, Tail(digests))

\* findImageDir probing the old encoding before the current one
findImageDirOldFirst(f, imageName) ==
  IF f[encodeOldEncoding(imageName)].exists
    THEN encodeOldEncoding(imageName)
  ELSE IF f[GetImageDir(imageName)].exists THEN GetImageDir(imageName)
  ELSE <<>>

\* findImageDir, lines 130-149: the directory name found, <<>> for none
findImageDir(f, imageName) ==
  IF f[GetImageDir(imageName)].exists THEN GetImageDir(imageName)
  ELSE IF f[encodeOldEncoding(imageName)].exists
    THEN encodeOldEncoding(imageName)
  ELSE <<>>

\* ImageExists, lines 152-154
ImageExists(f, imageName) == findImageDir(f, imageName) # <<>>

\* ListImages, lines 100-117: the directories listed under the name image
ListImages(f, image) ==
  { d \in DirNames : f[d].exists /\ ListImagesName(d) = image }

\* RemoveImage as it was before findImageDir: RemoveAll of GetImageDir
RemoveImageResultBlind(f, imageName) ==
  [err |-> "", fs |-> [f EXCEPT ![GetImageDir(imageName)] = NoDir]]

\* RemoveImage, lines 157-168: the error and the store it leaves
RemoveImageResult(f, imageName) ==
  IF findImageDir(f, imageName) = <<>>
    THEN [err |-> "image not found", fs |-> f]
    ELSE [err |-> "", fs |-> [f EXCEPT ![findImageDir(f, imageName)] = NoDir]]

\* tagCmd.Run, lines 66-91: the layer files are copied between the
\* directories of the old names; a file copied onto itself is truncated
TagLayers(f, source, target) ==
  LET src == encodeOldEncoding(source)
      dst == encodeOldEncoding(target)
      made == [f EXCEPT ![dst].exists = TRUE]
      files == made[src].layers
  IN IF ~(made[src].exists /\ made[src].layersDir) \/ files = {}
       THEN [err |-> "", fs |-> made]
     ELSE IF ~made[dst].layersDir
       THEN [err |-> "failed to copy layer", fs |-> made]
     ELSE IF src = dst
       THEN [err |-> "",
             fs |-> [made EXCEPT ![dst].layers =
                       { [name |-> x.name, content |-> <<>>] : x \in files }]]
     ELSE [err |-> "",
           fs |-> [made EXCEPT ![dst].layers =
                     { x \in @ : \A y \in files : y.name # x.name }
                       \cup files]]

\* tagCmd.Run, lines 36-93: the error and the store it leaves
TagResult(f, source, target) ==
  IF ~ImageExists(f, source)
    THEN [err |-> "source image not found", fs |-> f]
  ELSE IF LoadManifestRaw(f, source).err # ""
    THEN [err |-> "failed to load manifest", fs |-> f]
  ELSE IF LoadManifestRaw(f, source).data.fmt = "text"
    THEN [err |-> "failed to load manifest", fs |-> f]
  ELSE LET saved == SaveManifest(f, target,
                      UnmarshalManifest(LoadManifestRaw(f, source).data))
       IN IF saved[GetImageDir(source)].config = ""
            THEN [err |-> "failed to load config", fs |-> saved]
            ELSE TagLayers(SaveConfig(saved, target,
                                      saved[GetImageDir(source)].config),
                           source, target)

\* where a pull stops: at a layer download, at the raw manifest request, or
\* nowhere
PullStops == {"layer", "manifest", "none"}

StoreOp(name, imageName, target, err, data) ==
  [op |-> name, ref |-> imageName, target |-> target, err |-> err,
   data |-> data]

\* pullCmd.Run, lines 92-187: config, layers and manifest of the image are
\* stored, in this order, until the pull stops
PullRun(imageRef, raw, stop) ==
  /\ Len(slog) < MaxOps
  /\ LET withConfig == SaveConfig(fs, imageRef, raw.body.config)
         withLayers == SaveLayers(withConfig, imageRef, raw.body.layers)
     IN fs' = CASE stop = "layer" -> withConfig
                [] stop = "manifest" -> withLayers
                [] OTHER -> SaveManifestRaw(withLayers, imageRef,
                                            ConvertOCI(raw))
  /\ slog' = Append(slog, StoreOp("pull", imageRef, <<>>,
                                  IF stop = "none" THEN "" ELSE "failed",
                                  raw.body))
  /\ UNCHANGED <<clientVars, manifestVars, pushVars, downloadVars,
                 encodingVars, lateVars>>

\* tagCmd.Run, lines 36-93
TagRun(source, target) ==
  /\ Len(slog) < MaxOps
  /\ fs' = TagResult(fs, source, target).fs
  /\ slog' = Append(slog, StoreOp("tag", source, target,
                                  TagResult(fs, source, target).err, NoBytes))
  /\ UNCHANGED <<clientVars, manifestVars, pushVars, downloadVars,
                 encodingVars, lateVars>>

\* Store.RemoveImage, lines 344-346, Layout.RemoveImage, lines 157-168
RemoveImageCall(imageName) ==
  /\ Len(slog) < MaxOps
  /\ fs' = RemoveImageResult(fs, imageName).fs
  /\ slog' = Append(slog, StoreOp("RemoveImage", imageName, <<>>,
                                  RemoveImageResult(fs, imageName).err,
                                  NoBytes))
  /\ UNCHANGED <<clientVars, manifestVars, pushVars, downloadVars,
                 encodingVars, lateVars>>

\* Store.SaveManifest, lines 210-229
SaveManifestCall(imageName, manifest) ==
  /\ Len(slog) < MaxOps
  /\ fs' = SaveManifest(fs, imageName, manifest)
  /\ slog' = Append(slog, StoreOp("SaveManifest", imageName, <<>>, "",
                                  NoBytes))
  /\ UNCHANGED <<clientVars, manifestVars, pushVars, downloadVars,
                 encodingVars, lateVars>>

\* Store.SaveManifestRaw, lines 232-245
SaveManifestRawCall(imageName, data) ==
  /\ Len(slog) < MaxOps
  /\ fs' = SaveManifestRaw(fs, imageName, data)
  /\ slog' = Append(slog, StoreOp("SaveManifestRaw", imageName, <<>>, "",
                                  data))
  /\ UNCHANGED <<clientVars, manifestVars, pushVars, downloadVars,
                 encodingVars, lateVars>>

\* Store.LoadManifestRaw, lines 265-274: the store is only read
LoadManifestRawCall(imageName) ==
  /\ Len(slog) < MaxOps
  /\ slog' = Append(slog, StoreOp("LoadManifestRaw", imageName, <<>>,
                                  LoadManifestRaw(fs, imageName).err,
                                  LoadManifestRaw(fs, imageName).data))
  /\ UNCHANGED <<fs, clientVars, manifestVars, pushVars, downloadVars,
                 encodingVars, lateVars>>

\* a store that is empty, or holds the directory a_1 of an earlier
\* generation
InitStore ==
  /\ auth = [Username |-> "", Password |-> "", Token |-> ""]
  /\ ClientIdle
  /\ ManifestIdle
  /\ PushOff
  /\ DownloadOff
  /\ EncodingOff
  /\ LateOff
  /\ fs \in { [d \in DirNames |-> NoDir],
              [d \in DirNames |->
                 IF d = encodeOldEncoding(RefA) THEN OldDir ELSE NoDir] }
  /\ slog = <<>>

NextStore ==
  \/ \E r \in StoreRefs, raw \in RawAnswers, stop \in PullStops :
       PullRun(r, raw, stop)
  \/ \E source \in StoreRefs, target \in StoreRefs : TagRun(source, target)
  \/ \E r \in StoreRefs : RemoveImageCall(r)
  \/ \E r \in StoreRefs : SaveManifestCall(r, UnmarshalManifest(RawDocker))
  \/ \E r \in StoreRefs, b \in {RawDocker, RawText} :
       SaveManifestRawCall(r, b)
  \/ \E r \in StoreRefs : LoadManifestRawCall(r)

SpecStore == InitStore /\ [][NextStore]_vars

----------------------------------------------------------------------------
(* Properties of the request layer and of the authentication handler       *)

\* the running (or last) operation sent its request through doRequest
ByDoRequest == sent # <<>> /\ sent[1].by = "doRequest"

\* the first answer of the registry was a 401
First401 == Len(got) >= 1 /\ got[1].kind = "resp" /\ got[1].status = 401

\* the request step has returned
Finished == sent # <<>> /\ pc \in {"done", "idle"}

\* Bearer challenges that name a realm, Bearer challenges that name none,
\* and headers that start with neither "Bearer" nor "Basic"
BearerWithRealm ==
  {HdrBearerFull, HdrBearerRealm, HdrBearerSpaced, HdrBearerEmptyRealm}
BearerWithoutRealm == {HdrBearerNoRealm, HdrBearerBare}
OtherSchemes == {HdrDigest, HdrLowerBearer}

\* a token answer that is a 200 with a JSON body holding a non-empty token
TokenGranted(t) ==
  /\ t.kind = "resp"
  /\ t.status = 200
  /\ t.json
  /\ (t.token # "" \/ t.access_token # "")

\* the token of such an answer: token, or access_token when token is empty
GrantedToken(t) == IF t.token # "" THEN t.token ELSE t.access_token

\* C1: in a doRequest call that starts with no bearer token, when the first
\* answer is a 401 with a Bearer challenge that has a realm and the token
\* request is answered 200 with a non-empty token, exactly one more request
\* goes to the registry, for the same method and URL, and it carries
\* Authorization: Bearer <that token>.
C1_RetryCarriesToken ==
  ( /\ ByDoRequest
    /\ auth0.Token = ""
    /\ First401
    /\ got[1].header \in BearerWithRealm
    /\ tokenGot # <<>>
    /\ TokenGranted(tokenGot[1]) )
  => /\ Len(sent) = 2
     /\ sent[2].method = sent[1].method
     /\ sent[2].path = sent[1].path
     /\ sent[2].by = "doRequest"
     /\ sent[2].Authorization =
          [scheme |-> "Bearer", cred |-> <<GrantedToken(tokenGot[1])>>]

C1_Witness ==
  /\ pc = "done"
  /\ ByDoRequest
  /\ auth0.Token = ""
  /\ auth0.Username = "user"
  /\ auth0.Password = "pass"
  /\ First401
  /\ got[1].header = HdrBearerSpaced
  /\ TokenGranted(tokenGot[1])
  /\ Len(sent) = 2
  /\ sent[2].Authorization.scheme = "Bearer"
  /\ got[2].status = 200

\* C2: a doRequest call sends at most two requests to the registry and
\* resolves at most one challenge; the answer to the retry, a 401 included,
\* is returned as it is, with no error, no third request and no second
\* resolution.
C2_AtMostTwoRequests ==
  /\ Len(sent) <= 2
  /\ challenges <= 1
  /\ Len(tokenReqs) <= 1
  /\ Len(got) = 2 =>
       /\ Finished
       /\ got[2].kind = "resp" =>
            result = [err |-> "", cause |-> "", status |-> got[2].status]

C2_Witness ==
  /\ pc = "done"
  /\ Len(sent) = 2
  /\ Len(got) = 2
  /\ got[2].kind = "resp"
  /\ got[2].status = 401
  /\ got[2].header \in BearerWithRealm
  /\ result.status = 401
  /\ challenges = 1

\* a step in which a 401 answer arrives for a request that carried a bearer
\* token
Token401Step ==
  /\ sent # <<>>
  /\ sent[Len(sent)].Authorization.scheme = "Bearer"
  /\ Len(got') = Len(got) + 1
  /\ got'[Len(got')].kind = "resp"
  /\ got'[Len(got')].status = 401

\* C3 as stated: once a bearer token is held, a request that carries it and
\* is answered 401 starts no challenge resolution and no token fetch, in the
\* same or in a later doRequest call.
C3_Original ==
  [][Token401Step => challenges' = challenges /\ tokenReqs' = tokenReqs]_vars

\* C3 as amended: the retried request of a doRequest call that carries the
\* bearer token and is answered 401 starts no challenge resolution and no
\* token fetch: the call returns that 401.  The first request of a later
\* doRequest call that carries the token and is answered 401 does start a
\* challenge resolution.
C3_Amended ==
  [][Token401Step =>
       /\ pc = "retry" =>
            /\ challenges' = challenges
            /\ tokenReqs' = tokenReqs
            /\ sent' = sent
            /\ auth' = auth
            /\ pc' = "done"
            /\ result' = [err |-> "", cause |-> "", status |-> 401]
       /\ pc = "first" => challenges' = challenges + 1]_vars

C3_Witness ==
  /\ pc = "done"
  /\ calls >= 1
  /\ auth0.Token # ""
  /\ Len(got) = 2
  /\ sent[2].Authorization.scheme = "Bearer"
  /\ got[2].kind = "resp"
  /\ got[2].status = 401
  /\ got[2].header = HdrBearerFull
  /\ Len(tokenReqs) = 1

\* C4 as stated: every request of the manifest and blob operations, the PUT
\* of a blob and the PUT of a manifest included, goes through doRequest, so
\* a 401 answer to it starts a challenge resolution.
C4_Original ==
  /\ \A i \in 1..Len(sent) : sent[i].by = "doRequest"
  /\ First401 => challenges = 1

\* the challenge resolution of the running call has failed
ResolutionFailed == Finished /\ result.err = "authentication failed"

\* C4 as amended: the GET, HEAD and POST requests of the manifest and blob
\* operations go through doRequest, so a 401 answer to the first of them
\* starts a challenge resolution, followed by one retry unless the
\* resolution fails.  The PUT of a blob and the PUT of a manifest are sent
\* directly, with the credentials of AddAuth: a 401 answer to them starts no
\* challenge resolution and no retry, and the operation fails with the
\* status.
C4_Amended ==
  /\ (sent # <<>> /\ op.method \in {"GET", "HEAD", "POST"}) =>
       /\ \A i \in 1..Len(sent) : sent[i].by = "doRequest"
       /\ First401 =>
            /\ challenges = 1
            /\ Finished => (Len(sent) = 2 \/ ResolutionFailed)
            /\ Len(sent) = 2 => ~ResolutionFailed
  /\ (sent # <<>> /\ op.method = "PUT") =>
       /\ Len(sent) = 1
       /\ sent[1].by = "httpClient.Do"
       /\ sent[1].Authorization = AddAuth(auth0)
       /\ challenges = 0
       /\ tokenReqs = <<>>
       /\ auth = auth0
       /\ First401 =>
            result = [err |-> "unexpected status code", cause |-> "",
                      status |-> 401]

C4_Witness ==
  /\ pc = "done"
  /\ op.name = "PutManifest"
  /\ First401
  /\ got[1].header = HdrBearerFull
  /\ result.err = "unexpected status code"
  /\ challenges = 0

\* a token answer that makes the token fetch fail
TokenRefused(t) ==
  \/ t.kind = "err"
  \/ t.status # 200
  \/ ~t.json
  \/ (t.token = "" /\ t.access_token = "")

\* C5: when the first answer is a 401 and the challenge resolution fails (no
\* Www-Authenticate header, Bearer without realm, failed token fetch,
\* unsupported scheme), doRequest returns an authentication error and sends
\* no retry.
C5_FailedResolutionNoRetry ==
  ( /\ ByDoRequest
    /\ First401
    /\ \/ got[1].header \in {HdrNone} \cup BearerWithoutRealm \cup OtherSchemes
       \/ tokenGot # <<>> /\ TokenRefused(tokenGot[1]) )
  => /\ pc \in {"done", "idle"}
     /\ result.err = "authentication failed"
     /\ Len(sent) = 1
     /\ Len(got) = 1

C5_Witness ==
  /\ pc = "done"
  /\ ByDoRequest
  /\ First401
  /\ got[1].header = HdrNone
  /\ result.err = "authentication failed"
  /\ result.cause = "no Www-Authenticate header found"
  /\ Len(sent) = 1

\* the credentials held when request i of the running operation was built
AuthAt(i) == IF i = 1 THEN auth0 ELSE auth

\* C6: every request carries exactly the credential of highest priority: the
\* Bearer token when one is held, else Basic when username and password are
\* both set, else no Authorization header; with a token held no request to
\* the registry carries Basic credentials.
C6_AddAuthPriority ==
  \A i \in 1..Len(sent) :
    LET a == AuthAt(i)
        h == sent[i].Authorization
    IN /\ a.Token # "" => h = [scheme |-> "Bearer", cred |-> <<a.Token>>]
       /\ (a.Token = "" /\ a.Username # "" /\ a.Password # "") =>
            h = [scheme |-> "Basic",
                 cred |-> <<a.Username, ":", a.Password>>]
       /\ (a.Token = "" /\ (a.Username = "" \/ a.Password = "")) =>
            h.scheme = "none"

C6_Witness ==
  /\ pc = "retry"
  /\ auth.Username = "user"
  /\ auth.Password = "pass"
  /\ auth0.Token = ""
  /\ auth.Token # ""
  /\ sent[1].Authorization.scheme = "Basic"
  /\ sent[2].Authorization.scheme = "Bearer"

\* C7: when the token request is answered with a status other than 200, or
\* with a 200 whose token and access_token are both empty or missing, the
\* challenge resolution fails with an authentication error and the stored
\* bearer token stays as it was.
C7_RefusedTokenKeepsState ==
  ( /\ tokenGot # <<>>
    /\ tokenGot[1].kind = "resp"
    /\ \/ tokenGot[1].status # 200
       \/ (tokenGot[1].token = "" /\ tokenGot[1].access_token = "") )
  => /\ pc \in {"done", "idle"}
     /\ result = [err |-> "authentication failed",
                  cause |-> "failed to fetch token", status |-> 0]
     /\ auth.Token = auth0.Token
     /\ Len(sent) = 1

C7_Witness ==
  /\ pc = "done"
  /\ auth0.Token = "t1"
  /\ tokenGot # <<>>
  /\ tokenGot[1].kind = "resp"
  /\ tokenGot[1].status = 403
  /\ tokenGot[1].json
  /\ tokenGot[1].token = ""
  /\ tokenGot[1].access_token = "t2"
  /\ auth.Token = "t1"
  /\ result.err = "authentication failed"

\* C8: a Bearer challenge without a realm attribute makes the challenge
\* resolution fail, sends no token request and leaves the auth state as it
\* was.
C8_NoRealmFails ==
  (ByDoRequest /\ First401 /\ got[1].header \in BearerWithoutRealm)
  => /\ pc \in {"done", "idle"}
     /\ result = [err |-> "authentication failed",
                  cause |-> "no realm found in Www-Authenticate header",
                  status |-> 0]
     /\ tokenReqs = <<>>
     /\ tokenGot = <<>>
     /\ auth = auth0

C8_Witness ==
  /\ pc = "done"
  /\ ByDoRequest
  /\ First401
  /\ got[1].header = HdrBearerNoRealm
  /\ result.cause = "no realm found in Www-Authenticate header"
  /\ tokenReqs = <<>>

\* C9: a 401 with a Basic challenge changes nothing in the auth state and
\* fetches no token; the challenge resolution reports no error and
\* doRequest retries once, with the credentials of the first request.
C9_BasicChallengeRetries ==
  (ByDoRequest /\ First401 /\ got[1].header = HdrBasic)
  => /\ auth = auth0
     /\ tokenReqs = <<>>
     /\ challenges = 1
     /\ Len(sent) = 2
     /\ sent[2] = sent[1]
     /\ result.err \notin {"authentication failed", "request failed"}

C9_Witness ==
  /\ pc = "done"
  /\ ByDoRequest
  /\ First401
  /\ got[1].header = HdrBasic
  /\ sent[1].Authorization.scheme = "Basic"
  /\ Len(sent) = 2
  /\ Len(got) = 2
  /\ got[2].status = 200

\* C10: a 401 whose Www-Authenticate header starts with neither Bearer nor
\* Basic makes the challenge resolution fail with an unsupported-scheme
\* error and leaves the auth state as it was.
C10_UnsupportedScheme ==
  (ByDoRequest /\ First401 /\ got[1].header \in OtherSchemes)
  => /\ pc \in {"done", "idle"}
     /\ result = [err |-> "authentication failed",
                  cause |-> "unsupported authentication method",
                  status |-> 0]
     /\ auth = auth0
     /\ tokenReqs = <<>>

C10_Witness ==
  /\ pc = "done"
  /\ ByDoRequest
  /\ First401
  /\ got[1].header = HdrDigest
  /\ auth0.Token # ""
  /\ result.cause = "unsupported authentication method"
  /\ auth = auth0

\* C11: a transport failure of the first request or of the retried request
\* makes doRequest return an error at once: it is the last answer of the
\* call and no request is sent after it.
C11_TransportFailureIsFinal ==
  \A i \in 1..Len(got) :
    got[i].kind = "err" =>
      /\ i = Len(got)
      /\ Len(sent) = i
      /\ pc \in {"done", "idle"}
      /\ result.status = 0
      /\ result.err = IF i = 1 THEN "request failed" ELSE "retry request failed"

C11_Witness ==
  /\ pc = "done"
  /\ ByDoRequest
  /\ Len(sent) = 2
  /\ Len(got) = 2
  /\ got[2].kind = "err"
  /\ result.err = "retry request failed"

\* C20: CheckBlob returns (true, no error) when the final HEAD response is
\* 200, (false, no error) when it is 404, and an error for every other
\* status.
C20_CheckBlobResult ==
  ( /\ op.name = "CheckBlob"
    /\ pc = "idle"
    /\ ret.called
    /\ got[Len(got)].kind = "resp" )
  => LET st == got[Len(got)].status
     IN /\ st = 200 => (ret.exists /\ ret.err = "")
        /\ st = 404 => (~ret.exists /\ ret.err = "")
        /\ st \notin {200, 404} => (~ret.exists /\ ret.err # "")

C20_Witness ==
  /\ op.name = "CheckBlob"
  /\ pc = "idle"
  /\ Len(got) = 2
  /\ got[1].header = HdrBearerFull
  /\ got[2].kind = "resp"
  /\ got[2].status = 404
  /\ ret = [called |-> TRUE, exists |-> FALSE, err |-> ""]

----------------------------------------------------------------------------
(* Properties of manifest resolution                                       *)

IsAmd64Linux(e) ==
  e.platform.architecture = "amd64" /\ e.platform.os = "linux"

IsArm64Linux(e) ==
  e.platform.architecture = "arm64" /\ e.platform.os = "linux"

\* positions of the amd64/linux entries of a list
Amd64Positions(ms) == { i \in 1..Len(ms) : IsAmd64Linux(ms[i]) }

\* an answer that is a manifest list or an OCI index
IsListAnswer(r) ==
  /\ r.kind = "resp"
  /\ r.status = 200
  /\ r.body.json
  /\ \/ r.body.mediaType \in {MTManifestList, MTOCIIndex}
     \/ r.contentType \in {MTManifestList, MTOCIIndex}

\* C12: for a manifest list with one amd64/linux entry and an arm64/linux
\* entry, at any positions, GetManifest requests the digest of the
\* amd64/linux entry and returns the manifest the registry sent for that
\* request.
C12_ResolvesToAmd64 ==
  ( /\ mkind = "GetManifest"
    /\ Cardinality(Amd64Positions(mlist)) = 1
    /\ \E j \in 1..Len(mlist) : IsArm64Linux(mlist[j]) )
  => LET i == CHOOSE k \in Amd64Positions(mlist) : TRUE
     IN /\ mref = mlist[i].digest
        /\ mref \in mreqs
        /\ mret.err # "no amd64 manifest found in manifest list"
        /\ (mpc = "done" /\ mret.err = "") =>
             /\ mlast.status = 200
             /\ mret.manifest.MediaType = mlast.body.mediaType
             /\ mret.manifest.Manifests = mlast.body.manifests
             /\ mret.manifest.Content = mlast.body.content

C12_Witness ==
  /\ mkind = "GetManifest"
  /\ mpc = "done"
  /\ mret.err = ""
  /\ Len(mlist) = 2
  /\ IsArm64Linux(mlist[1])
  /\ mlist[1].digest = "sha256:a"
  /\ IsAmd64Linux(mlist[2])
  /\ mlist[2].digest = "sha256:b"
  /\ mref = "sha256:b"
  /\ mret.manifest.Content = "image1"

\* a step of GetManifest in which a manifest list or index arrives
ListArrives ==
  /\ mkind = "GetManifest"
  /\ mpc = "fetching"
  /\ mlast' # mlast
  /\ IsListAnswer(mlast')

\* C13: when GetManifest receives a manifest list or index with no entry
\* for exactly amd64 and linux, it fails with an error, sends no further
\* manifest request and tries no other architecture.
C13_NoPlatformFails ==
  [][(ListArrives /\ Amd64Positions(mlast'.body.manifests) = {}) =>
       /\ mpc' = "done"
       /\ mret'.returned
       /\ mret'.err = "no amd64 manifest found in manifest list"
       /\ mret'.manifest = NoManifest
       /\ mref' = mref
       /\ mreqs' = mreqs]_vars

C13_Witness ==
  /\ mkind = "GetManifest"
  /\ mpc = "done"
  /\ mret.err = "no amd64 manifest found in manifest list"
  /\ Len(mlist) = 2
  /\ IsArm64Linux(mlist[1])
  /\ mlist[2].platform = [architecture |-> "amd64", os |-> "windows"]
  /\ mreqs = {"latest"}

\* C14: when a manifest list holds several amd64/linux entries, GetManifest
\* follows the digest of the first one in entry order: the one request it
\* sends is for that digest, never for the digest of a later entry.
C14_FirstMatchWins ==
  [][(ListArrives /\ Cardinality(Amd64Positions(mlast'.body.manifests)) >= 2) =>
       LET ms == mlast'.body.manifests
           first == CHOOSE i \in Amd64Positions(ms) :
                      \A j \in Amd64Positions(ms) : i <= j
       IN /\ mpc' = "fetching"
          /\ mref' = ms[first].digest
          /\ mreqs' = mreqs \cup {ms[first].digest}]_vars

C14_Witness ==
  /\ mkind = "GetManifest"
  /\ mpc = "fetching"
  /\ Len(mlist) = 2
  /\ IsAmd64Linux(mlist[1])
  /\ IsAmd64Linux(mlist[2])
  /\ mlist[1].digest = "sha256:a"
  /\ mlist[2].digest = "sha256:b"
  /\ mref = "sha256:a"
  /\ mreqs = {"latest", "sha256:a"}

\* C15: every GetManifest call terminates, whatever the registry answers,
\* also when each followed digest is answered with another manifest list.
C15_Terminates ==
  (mkind = "GetManifest" /\ mpc = "fetching") ~> (mpc = "done")

\* C16: GetManifestRaw never resolves: it sends the one request for its
\* reference, and when the answer is a 200, a manifest list or index
\* included, it returns exactly the bytes and the content type of that
\* answer.
C16_RawDoesNotResolve ==
  mkind = "GetManifestRaw" =>
    /\ mreqs = {mref}
    /\ mlist = <<>>
    /\ mlast.kind # "none" => mpc = "done"
    /\ (mlast.kind = "resp" /\ mlast.status = 200) =>
         /\ mret.returned
         /\ mret.err = ""
         /\ mret.bytes = mlast.body
         /\ mret.contentType = mlast.contentType

C16_Witness ==
  /\ mkind = "GetManifestRaw"
  /\ mpc = "done"
  /\ mlast.contentType = MTManifestList
  /\ Len(mlast.body.manifests) = 1
  /\ IsAmd64Linux(mlast.body.manifests[1])
  /\ mret.bytes = mlast.body
  /\ mret.contentType = MTManifestList
  /\ mreqs = {"latest"}

----------------------------------------------------------------------------
(* Properties of push and of the blob upload                                *)

\* the error text of UploadBlob names an existing blob
NamesExistingBlob(text) ==
  \E sub \in {TxtBlobUploadInvalid, TxtAlreadyExists, TxtExistBlob} :
    Contains(text, sub)

\* C17: whenever UploadBlob returns to push an error whose text contains
\* BLOB_UPLOAD_INVALID, "already exists" or "exist blob", push does not fail:
\* it counts the blob as present, goes on with the next layer when one is
\* left, and after the last blob reaches the manifest upload, which sends the
\* manifest PUT of a single-image manifest.
C17_ExistingBlobIsSkipped ==
  [][ /\ (ppc = "returned" /\ NamesExistingBlob(uerr))
         => /\ ppc' # "failed"
            /\ pidx \in skipped'
            /\ pidx < nLayers => (ppc' = "open" /\ pidx' = pidx + 1)
            /\ pidx = nLayers => ppc' = "stage"
      /\ (ppc = "stage" /\ ~isList /\ skipped # {})
         => /\ ppc' = "manifest"
            /\ plog'[Len(plog')].kind = "manifest-put" ]_vars

\* a push whose config PUT was refused with "exist blob", whose only layer
\* file could not be opened, and which has sent the manifest
C17_Witness ==
  /\ ppc = "manifest"
  /\ nLayers = 1
  /\ skipped = {0, 1}
  /\ Len(plog) = 3
  /\ plog[3].kind = "manifest-put"

\* the POST of the blob in hand was answered 202 with a Location header
UploadSessionOpened ==
  /\ postResp.kind = "resp"
  /\ postResp.status = 202
  /\ postResp.location # <<>>

\* C18: a blob PUT is sent only after the POST of the same blob was answered
\* 202 with a non-empty Location header; after any other answer to the POST
\* UploadBlob returns an error and no PUT of that blob is sent.
C18_PutOnlyAfterAccepted ==
  /\ \A k \in 1..Len(plog) :
       plog[k].kind = "blob-put"
         => /\ k > 1
            /\ plog[k - 1].kind = "blob-post"
            /\ plog[k - 1].blob = plog[k].blob
  /\ (ppc = "put" \/ (ppc = "returned" /\ putResp.kind # "none"))
       => UploadSessionOpened
  /\ (postResp.kind # "none" /\ ~UploadSessionOpened)
       => /\ ppc \in {"returned", "failed"}
          /\ uerr # <<>>
          /\ putResp.kind = "none"
          /\ plog[Len(plog)] = [kind |-> "blob-post", blob |-> pidx,
                                url |-> <<>>, query |-> <<>>]

\* the POST of the first layer answered 200 with a Location header: the
\* upload has returned an error and the last request is still the POST
C18_Witness ==
  /\ ppc = "returned"
  /\ pidx = 1
  /\ postResp.kind = "resp"
  /\ postResp.status = 200
  /\ postResp.location = LocRelative
  /\ uerr # <<>>
  /\ plog[Len(plog)].kind = "blob-post"

\* the status codes as the error text shows them
StatusDigits ==
  [st \in PutStatuses |->
     CASE st = 200 -> <<"2", "0", "0">>
       [] st = 201 -> <<"2", "0", "1">>
       [] st = 202 -> <<"2", "0", "2">>
       [] st = 400 -> <<"4", "0", "0">>
       [] OTHER -> <<"5", "0", "0">>]

\* C19: when the PUT of a blob is answered, the upload has no error exactly
\* when the status is 201; for every other status the error text holds the
\* status code followed by the text of the response body.
C19_Only201Succeeds ==
  (ppc = "returned" /\ putResp.kind = "resp")
    => /\ (uerr = <<>>) <=> (putResp.status = 201)
       /\ putResp.status # 201
            => Contains(uerr, StatusDigits[putResp.status] \o <<":", " ">>
                                \o putResp.body)

\* the PUT of the config blob answered 200 with body "denied"
C19_Witness ==
  /\ ppc = "returned"
  /\ pidx = 0
  /\ putResp.kind = "resp"
  /\ putResp.status = 200
  /\ putResp.body = BodyDenied
  /\ uerr # <<>>

----------------------------------------------------------------------------
(* Properties of the blob download                                          *)

\* C21: when the blob GET is answered with a status other than 200, the
\* download is over with an error, the file at the destination is what it
\* was before the call (none created, none truncated), and progress was
\* never called.
C21_Non200LeavesNoFile ==
  (danswer.kind = "resp" /\ danswer.status # 200)
    => /\ dpc = "done"
       /\ derr # ""
       /\ dfile = dfile0
       /\ dcalls = <<>>

\* DownloadBlobWithProgress with a callback answered 206 with a body, the
\* destination holding a file of two bytes
C21_Witness ==
  /\ dfn = "DownloadBlobWithProgress"
  /\ dprogress
  /\ danswer.kind = "resp"
  /\ danswer.status = 206
  /\ danswer.len = 2
  /\ dfile0 = 2
  /\ dpc = "done"

\* C22: a DownloadBlobWithProgress with a callback that returned nil has
\* called progress at least once, and its last call carries the length of
\* the body as the bytes written.
C22_FinalCallback ==
  (dpc = "done" /\ derr = "" /\ dfn = "DownloadBlobWithProgress" /\ dprogress)
    => /\ dcalls # <<>>
       /\ dcalls[Len(dcalls)].written = danswer.len

----------------------------------------------------------------------------
(* Properties of the directory names                                        *)

\* C23: for a reference with a "/" and a ":" in it, the directory name
\* GetImageDir gives decodes in ListImages to the reference itself.
C23_CurrentRoundTrip ==
  (epc = "decoded" /\ escheme = "current"
     /\ Contains(RefString(eref), <<"/">>)
     /\ Contains(RefString(eref), <<":">>))
    => eimage = RefString(eref)

\* no segment of the repository path has an underscore
PathWithoutUnderscore(r) ==
  \A i \in 1..Len(r.path) : ~Contains(r.path[i], <<"_">>)

----------------------------------------------------------------------------
(* Properties of the store                                                  *)

\* the last operation on the store
LastOp == slog[Len(slog)]

\* C25: after SaveManifest(ref, m), ListImages gives ref exactly once.
C25_ListedOnce ==
  (slog # <<>> /\ LastOp.op = "SaveManifest" /\ LastOp.err = "")
    => Cardinality(ListImages(fs, LastOp.ref)) = 1

\* C26: after RemoveImage(ref) returned nil, ImageExists(ref) is false.
C26_RemovedIsGone ==
  (slog # <<>> /\ LastOp.op = "RemoveImage" /\ LastOp.err = "")
    => ~ImageExists(fs, LastOp.ref)

\* C27: RemoveImage(ref) called when ImageExists(ref) is false returns the
\* error "image not found" and leaves every directory of the store as it was.
C27_RemoveMissingFails ==
  [][ (/\ Len(slog') = Len(slog) + 1
       /\ slog'[Len(slog')].op = "RemoveImage"
       /\ ~ImageExists(fs, slog'[Len(slog')].ref))
        => /\ slog'[Len(slog')].err = "image not found"
           /\ fs' = fs ]_vars

\* RemoveImage(b:2) failed on a store that holds other images
C27_Witness ==
  /\ slog # <<>>
  /\ LastOp.op = "RemoveImage"
  /\ LastOp.ref = RefB
  /\ LastOp.err = "image not found"
  /\ fs[GetImageDir(RefA)].exists
  /\ fs[encodeOldEncoding(RefA)].exists

\* C28: right after SaveManifestRaw(ref, b), LoadManifestRaw(ref) returns b
\* with no error, whatever was saved for ref before.
C28_RawRoundTrip ==
  (slog # <<>> /\ LastOp.op = "SaveManifestRaw" /\ LastOp.err = "")
    => LoadManifestRaw(fs, LastOp.ref) = [err |-> "", data |-> LastOp.data]

\* bytes that are not JSON were saved for a:1 over an earlier raw save
C28_Witness ==
  /\ Len(slog) = 2
  /\ slog[1].op = "SaveManifestRaw"
  /\ slog[1].data = RawDocker
  /\ slog[2].op = "SaveManifestRaw"
  /\ slog[2].data = RawText
  /\ \A i \in 1..2 : slog[i].ref = RefA
  /\ LoadManifestRaw(fs, RefA).data = RawText

\* C29: the manifest file a successful pull leaves for its reference holds
\* the bytes the registry sent, and after a successful tag the manifest file
\* of the target holds the bytes of the manifest file of the source.
C29_StoredBytesAreReceived ==
  /\ (slog # <<>> /\ LastOp.op = "pull" /\ LastOp.err = "")
       => LoadManifestRaw(fs, LastOp.ref).data = LastOp.data
  /\ (slog # <<>> /\ LastOp.op = "tag" /\ LastOp.err = "")
       => LoadManifestRaw(fs, LastOp.target).data
            = LoadManifestRaw(fs, LastOp.ref).data

\* C30: after a successful tag, every layer of the source manifest has a file
\* at GetLayerPath of the target, with the content of the file of the source.
C30_TagCopiesLayers ==
  (slog # <<>> /\ LastOp.op = "tag" /\ LastOp.err = "")
    => LET layers == LoadManifestRaw(fs, LastOp.ref).data.layers
           from == fs[GetImageDir(LastOp.ref)].layers
           to == fs[GetImageDir(LastOp.target)].layers
       IN \A i \in 1..Len(layers) :
            /\ \E x \in to : x.name = GetLayerPath(layers[i])
            /\ \A x \in to, y \in from :
                 (x.name = GetLayerPath(layers[i]) /\ y.name = x.name)
                   => x.content = y.content

----------------------------------------------------------------------------
(* Properties of the session token                                          *)

\* C40: the bearer token of the session changes only in the step in which a
\* token request made for a Bearer challenge is answered 200 with a non-empty
\* token, and then to that token; a token once held is never replaced by the
\* empty one, and username and password never change.
C40_TokenChangesOnlyOnGrant ==
  [][ /\ auth'.Token # auth.Token
           => /\ pc = "token"
              /\ HasPrefix(got[Len(got)].header, BearerWord)
              /\ tokenGot' # tokenGot
              /\ TokenGranted(tokenGot'[Len(tokenGot')])
              /\ auth'.Token = GrantedToken(tokenGot'[Len(tokenGot')])
              /\ auth'.Token # ""
      /\ auth.Token # "" => auth'.Token # ""
      /\ auth'.Username = auth.Username
      /\ auth'.Password = auth.Password ]_vars

\* a session that held t1 now holds t2, the access_token of a token answer
C40_Witness ==
  /\ auth0.Token = "t1"
  /\ auth.Token = "t2"
  /\ tokenGot # <<>>
  /\ tokenGot[Len(tokenGot)].token = ""
  /\ tokenGot[Len(tokenGot)].access_token = "t2"
  /\ pc = "retry"

----------------------------------------------------------------------------
(* Properties of the upload URL and of the order of the push               *)

\* C36: when the Location of the upload POST is a path that starts with
\* /v2/, the PUT goes to that very path on the registry host.
C36_RelativeLocationResolved ==
  (ppc = "put" /\ HasPrefix(postResp.location, V2Prefix \o <<"/">>))
    => plog[Len(plog)].url = BaseURL \o postResp.location

\* the blobs of the push: the config and the layers
PushBlobs == 0..nLayers

\* C37: a manifest PUT is the last request of the push, and it is sent only
\* when the stored manifest is not a list or index and the config and every
\* layer were each uploaded or taken as already existing; a push that failed
\* on a blob or on a manifest list has sent no manifest PUT.
C37_ManifestAfterAllBlobs ==
  /\ \A k \in 1..Len(plog) :
       plog[k].kind = "manifest-put"
         => /\ k = Len(plog)
            /\ ~isList
            /\ skipped \cup uploaded = PushBlobs
  /\ (ppc = "failed" /\ (uerr # <<>> \/ isList))
       => \A k \in 1..Len(plog) : plog[k].kind # "manifest-put"

\* the manifest of an image with two layers was sent after the config and
\* the second layer were uploaded and the first layer was taken as existing
C37_Witness ==
  /\ ppc = "manifest"
  /\ nLayers = 2
  /\ uploaded = {0, 2}
  /\ skipped = {1}
  /\ plog[Len(plog)].kind = "manifest-put"

\* C34: pull and push transfer the config and the layers one at a time, in
\* the order of the manifest: a request for blob i+1 is sent only after every
\* blob up to i was uploaded or taken as existing, the transfers a pull has
\* finished are blobs 0, 1, 2, ... in this order, and a transfer that failed
\* is the last one: no later blob is requested or stored.
C34_OneAtATimeInOrder ==
  /\ \A k \in 1..Len(plog) :
       plog[k].blob >= 0
         => /\ plog[k].blob <= pidx
            /\ \A j \in 0..(plog[k].blob - 1) : j \in skipped \cup uploaded
            /\ \A l \in k..Len(plog) :
                 plog[l].blob >= 0 => plog[k].blob <= plog[l].blob
  /\ (ppc = "failed" /\ uerr # <<>>)
       => /\ pidx \notin skipped \cup uploaded
          /\ \A j \in PushBlobs : j > pidx => j \notin skipped \cup uploaded
  /\ \A k \in 1..Len(blog) :
       /\ blog[k].blob = k - 1
       /\ blog[k].ok \/ (k = Len(blog) /\ bpc = "failed")
  /\ bpc = "transfer" => Len(blog) = bidx
  /\ bpc = "failed" => Len(blog) = bidx + 1 /\ ~blog[Len(blog)].ok
  /\ bpc = "fetched" => Len(blog) = bcount + 1 /\ bidx = bcount

\* a pull of an image with two layers stored the config and stopped on the
\* first layer, whose download or save failed
C34_Witness ==
  /\ bpc = "failed"
  /\ bcount = 2
  /\ bidx = 1
  /\ blog = <<[blob |-> 0, ok |-> TRUE], [blob |-> 1, ok |-> FALSE]>>

-----------------------------------------------------------------------------
(* parseImageRef of the pull command                                        *)

\* number of ':' after the repository path of a reference
MaxColons == 2

TxtDockerIO == <<"d", "o", "c", "k", "e", "r", ".", "i", "o">>
TxtLatest == <<"l", "a", "t", "e", "s", "t">>
TxtLibrary == <<"l", "i", "b", "r", "a", "r", "y", "/">>

\* parseImageRef cutting the tag at the last ':'
parseImageRefLast(imageRef) ==
  LET idx == IndexFrom(imageRef, "/", 1)
      potentialRegistry == SubSeq(imageRef, 1, idx - 1)
      found == /\ idx # 0
               /\ \/ Contains(potentialRegistry, <<".">>)
                  \/ Contains(potentialRegistry, <<":">>)
      rest == IF found THEN SubSeq(imageRef, idx + 1, Len(imageRef))
              ELSE imageRef
      registry == IF found THEN potentialRegistry ELSE TxtDockerIO
      colon == LastIndex(rest, ":")
      tag == IF colon # 0 THEN SubSeq(rest, colon + 1, Len(rest))
             ELSE TxtLatest
      name == IF colon # 0 THEN SubSeq(rest, 1, colon - 1) ELSE rest
  IN [name |-> IF registry = TxtDockerIO /\ ~Contains(name, <<"/">>)
                 THEN TxtLibrary \o name ELSE name,
      tag |-> tag, registry |-> registry]

\* parseImageRef, lines 197-226
parseImageRef(imageRef) ==
  LET idx == IndexFrom(imageRef, "/", 1)
      potentialRegistry == SubSeq(imageRef, 1, idx - 1)
      found == /\ idx # 0
               /\ \/ Contains(potentialRegistry, <<".">>)
                  \/ Contains(potentialRegistry, <<":">>)
      rest == IF found THEN SubSeq(imageRef, idx + 1, Len(imageRef))
              ELSE imageRef
      registry == IF found THEN potentialRegistry ELSE TxtDockerIO
      colon == IndexFrom(rest, ":", 1)
      tag == IF colon # 0 THEN SubSeq(rest, colon + 1, Len(rest))
             ELSE TxtLatest
      name == IF colon # 0 THEN SubSeq(rest, 1, colon - 1) ELSE rest
  IN [name |-> IF registry = TxtDockerIO /\ ~Contains(name, <<"/">>)
                 THEN TxtLibrary \o name ELSE name,
      tag |-> tag, registry |-> registry]

\* what stands before the first '/': nothing, a host with a dot, a host with
\* a port, a word that is no host, docker.io itself
ParseHosts == {<<>>, <<"r", ".", "i">>, <<"r", ":", "5">>, <<"h">>, TxtDockerIO}

ParsePaths == {<<"a">>, <<"a", "/", "b">>, <<"l", "/", "a">>}

\* the words between the ':' after the path: a tag, a tag with the start of
\* a digest
ParseWords == {<<"v">>, <<"t", "@", "s">>}

\* what follows the path: up to n times a ':' and a word
RECURSIVE ParseSuffixes(_)
ParseSuffixes(n) ==
  IF n = 0 THEN {<<>>}
  ELSE ParseSuffixes(n - 1)
         \cup { x \o <<":">> \o w : x \in ParseSuffixes(n - 1),
                                     w \in ParseWords }

\* the references given to pull
ParseRefs ==
  { (IF h = <<>> THEN <<>> ELSE h \o <<"/">>) \o p \o x :
      h \in ParseHosts, p \in ParsePaths, x \in ParseSuffixes(MaxColons) }

\* pullCmd.Run, line 29, and pushCmd.Run, line 26: the reference is parsed
ParseImageRefCall ==
  /\ ipc = "ref"
  /\ ipc' = "parsed"
  /\ iparsed' = parseImageRef(iref)
  /\ UNCHANGED <<iref, clientVars, manifestVars, pushVars, downloadVars,
                 encodingVars, storeVars, pullVars>>

InitParse ==
  /\ auth = [Username |-> "", Password |-> "", Token |-> ""]
  /\ ClientIdle
  /\ ManifestIdle
  /\ PushOff
  /\ DownloadOff
  /\ EncodingOff
  /\ StoreOff
  /\ PullOff
  /\ ipc = "ref"
  /\ iref \in ParseRefs
  /\ iparsed = NoParsed

NextParse == ParseImageRefCall

SpecParse == InitParse /\ [][NextParse]_vars

-----------------------------------------------------------------------------
(* Properties of the lookup in the store                                    *)

\* C31: ImageExists and RemoveImage probe the directory of the current
\* encoding first and the directory of the old encoding only when the current
\* one is absent: a reference exists when one of the two does, the current
\* directory is the one found when it exists, and a RemoveImage that returns
\* nil removes that directory and nothing else.
C31_CurrentThenLegacy ==
  [][ \A r \in StoreRefs :
        LET cur == GetImageDir(r)
            old == encodeOldEncoding(r)
            gone == IF fs[cur].exists THEN cur ELSE old
        IN /\ ImageExists(fs, r) <=> (fs[cur].exists \/ fs[old].exists)
           /\ fs[cur].exists => findImageDir(fs, r) = cur
           /\ (~fs[cur].exists /\ fs[old].exists) => findImageDir(fs, r) = old
           /\ (/\ Len(slog') = Len(slog) + 1
               /\ slog'[Len(slog')].op = "RemoveImage"
               /\ slog'[Len(slog')].ref = r
               /\ slog'[Len(slog')].err = "")
                => /\ fs[gone].exists
                   /\ fs' = [fs EXCEPT ![gone] = NoDir] ]_vars

\* a:1 was pulled into a store that held the old directory a_1, then removed:
\* the directory of the current encoding is gone, a_1 is still there
C31_Witness ==
  /\ Len(slog) = 2
  /\ slog[1].op = "pull" /\ slog[1].ref = RefA /\ slog[1].err = ""
  /\ slog[2].op = "RemoveImage" /\ slog[2].ref = RefA /\ slog[2].err = ""
  /\ ~fs[GetImageDir(RefA)].exists
  /\ fs[encodeOldEncoding(RefA)] = OldDir

\* C32: a read of the store resolves the directory as ImageExists does: when
\* the directory findImageDir gives for the reference holds a manifest.json,
\* LoadManifestRaw returns its bytes.
C32_ReadsResolveAsExists ==
  (/\ slog # <<>>
   /\ LastOp.op = "LoadManifestRaw"
   /\ ImageExists(fs, LastOp.ref)
   /\ fs[findImageDir(fs, LastOp.ref)].manifest.present)
    => /\ LastOp.err = ""
       /\ LastOp.data = fs[findImageDir(fs, LastOp.ref)].manifest.data

\* C35: after a pull that failed, a reference that exists and whose manifest
\* loads has the config and every layer of that manifest stored. Stated for
\* a reference that held the image of a successful pull before.
C35_FailedPullNotComplete ==
  (/\ Len(slog) >= 2
   /\ LastOp.op = "pull" /\ LastOp.err # ""
   /\ slog[Len(slog) - 1].op = "pull"
   /\ slog[Len(slog) - 1].err = ""
   /\ slog[Len(slog) - 1].ref = LastOp.ref
   /\ ImageExists(fs, LastOp.ref)
   /\ LoadManifestRaw(fs, LastOp.ref).err = "")
    => LET m == LoadManifestRaw(fs, LastOp.ref).data
           d == fs[GetImageDir(LastOp.ref)]
       IN /\ d.config = m.config
          /\ \A i \in 1..Len(m.layers) :
               \E x \in d.layers : /\ x.name = GetLayerPath(m.layers[i])
                                   /\ x.content = m.layers[i]

\* the operations that store a manifest under their reference
SavingOps == {"pull", "SaveManifest", "SaveManifestRaw"}

\* C38: RemoveImage(ref) removes only the image stored under ref: a manifest
\* saved under another reference, with no removal since, is still there and
\* its reference still exists.
C38_RemoveLeavesOthers ==
  (slog # <<>> /\ LastOp.op = "RemoveImage" /\ LastOp.err = "")
    => \A k \in 1..(Len(slog) - 1) :
         (/\ slog[k].op \in SavingOps
          /\ slog[k].err = ""
          /\ slog[k].ref # LastOp.ref
          /\ \A j \in (k + 1)..(Len(slog) - 1) : slog[j].op \notin
                {"RemoveImage", "tag"})
           => /\ ImageExists(fs, slog[k].ref)
              /\ LoadManifestRaw(fs, slog[k].ref).err = ""

\* C39: in every state, a reference that exists has a manifest.json at the
\* path the store reads for it.
C39_ExistsHasManifest ==
  \A r \in StoreRefs :
    ImageExists(fs, r) => fs[GetImageDir(r)].manifest.present

-----------------------------------------------------------------------------
(* Properties of parseImageRef                                              *)

\* the reference once a first segment that looks like a host is removed
HostRemoved(ref) ==
  LET segs == Split(ref, "/")
  IN IF /\ Len(segs) > 1
        /\ (Contains(segs[1], <<".">>) \/ Contains(segs[1], <<":">>))
       THEN TrimPrefix(ref, segs[1] \o <<"/">>)
       ELSE ref

\* the registry a reference names: its first segment when it looks like a
\* host, docker.io otherwise
RegistryOf(ref) ==
  IF HostRemoved(ref) = ref THEN TxtDockerIO ELSE Split(ref, "/")[1]

\* C33 as stated: the tag is the text after the last ':' of the reference
\* without its host, 'latest' when there is none; the registry defaults to
\* docker.io; the name holds no ':'.
C33_Original ==
  ipc = "parsed"
    => LET rest == HostRemoved(iref)
       IN /\ iparsed.tag = IF Contains(rest, <<":">>)
                              THEN SubSeq(rest, LastIndex(rest, ":") + 1,
                                          Len(rest))
                              ELSE TxtLatest
          /\ iparsed.registry = RegistryOf(iref)
          /\ ~Contains(iparsed.name, <<":">>)

\* C33, amended: the tag is the text after the first ':' of the reference
\* without its host: what stands before the tag and its ':' holds no ':' and
\* is the name, with library/ before it when the registry is docker.io and
\* it has no '/'; without a ':' the tag is 'latest' and the name comes from
\* the whole reference without its host; the registry is the first segment
\* when it looks like a host and docker.io otherwise.
C33_Amended ==
  ipc = "parsed"
    => LET rest == HostRemoved(iref)
           plain == IF Contains(rest, <<":">>)
                      THEN SubSeq(rest, 1, Len(rest) - Len(iparsed.tag) - 1)
                      ELSE rest
       IN /\ ~Contains(plain, <<":">>)
          /\ ~Contains(iparsed.name, <<":">>)
          /\ IF Contains(rest, <<":">>)
               THEN plain \o <<":">> \o iparsed.tag = rest
               ELSE iparsed.tag = TxtLatest
          /\ iparsed.registry = RegistryOf(iref)
          /\ iparsed.name = IF /\ iparsed.registry = TxtDockerIO
                               /\ ~Contains(plain, <<"/">>)
                              THEN TxtLibrary \o plain ELSE plain

\* r:5/a/b:v:t@s was parsed: the tag is all that follows the first ':' after
\* the host
C33_Witness ==
  /\ ipc = "parsed"
  /\ iref = <<"r", ":", "5", "/", "a", "/", "b", ":", "v", ":", "t", "@", "s">>
  /\ iparsed = [name |-> <<"a", "/", "b">>,
                tag |-> <<"v", ":", "t", "@", "s">>,
                registry |-> <<"r", ":", "5">>]

====
